---- MODULE Spec2Model ----
(***************************************************************************)
(* Verification model of the BicycleDataProcessor.                         *)
(*                                                                         *)
(*   Spec        Run.__init__ and the processing pipeline it drives        *)
(*               (bicycledataprocessor/main.py), run repeatedly against    *)
(*               one persistent store.                                     *)
(*   SpecSensor  Sensor.get_data_for_date over bounded calibration data.   *)
(*   SpecSignal  Signal.convert_units, and compute_signals followed object *)
(*               by object.                                                *)
(*   SpecScale   RawSignal.scale and the loop of calibrate_signals.        *)
(*   SpecSync    find_timeshift, sync_error and truncate_data              *)
(*               (DataProcessor.py).                                       *)
(*   SpecCalls   single calls of Signal methods, find_bump,                *)
(*               split_around_nan, extract_task and select_runs.           *)
(***************************************************************************)
EXTENDS Integers, Sequences, FiniteSets, TLC

VARIABLES
    \* ---- the external store and the run's row in it (persist across Runs)
    maneuver,           \* metadata['Maneuver'] of the run
    riderLoaded,        \* metadata['Rider'] != 'None', so load_rider ran
    rawNodes,           \* raw channels that have a node under /rawData/<runid>
    taskGroup,          \* names stored under /taskData/<runid>; {} = no group
    storedFreq,         \* taskTable FilterFrequency of the run
    dbOpen,             \* the connection opened by the current Run.__init__
    \* ---- the arguments of the current Run.__init__
    argRunid, filterFreq, store,
    forceRecalc,        \* the argument as the caller passed it
    \* ---- the Run object under construction
    pc,                 \* position inside Run.__init__
    attrs,              \* attributes that exist on the Run object
    topSig, taskFromDatabase, tau, nrms,
    rawSignals, calibratedSignals, truncatedSignals, computedSignals,
    taskSignals,
    trace,              \* stages entered so far, in order
    exc, excStage,      \* exception that left Run.__init__, and where
    recomputed,         \* the local forceRecalc at line 661: whether
                        \* process_raw_signals was entered
    wroteStore,         \* add_task_signals was called by this construction
    \* ---- Sensor.get_data_for_date
    sensorData,         \* Sensor.data: calibrationID -> timeStamp string
    iterOrder,          \* order in which the dictionary is iterated
    runDate,            \* the run's DateTime string
    calibResult,        \* calibrationID returned, 0 before the call
    sensorPc,           \* "idle", "sensor", "returned" or "raised"
    \* ---- Signal objects: the mappings of a Run by object identity
    heap,               \* the Signal objects made so far: name, units, samples
    truncatedAt,        \* truncatedSignals: key -> index of its object in heap
    computedAt,         \* computedSignals: key -> index of its object in heap
    truncatedWas,       \* the entries as truncate_signals left them
    convCall,           \* the last convert_units call and its outcome
    signalPc,           \* position inside compute_signals, or "converted"
    \* ---- RawSignal.scale and the loop of calibrate_signals
    scaleCall,          \* the last scale() call: the raw signal and the outcome
    valuesOrder,        \* self.rawSignals.values(), in iteration order
    calibratedNames,    \* keys of self.calibratedSignals during the loop
    loopAt,             \* index into valuesOrder of the signal scaled next
    calibPc, calibExc,  \* position in calibrate_signals, exception leaving it
    \* ---- find_timeshift, sync_error and truncate_data
    sync,               \* arguments, locals and result of the current call
    syncPc,             \* position inside the call
    \* ---- single calls of the remaining functions and methods
    call,               \* the function called, its arguments and its result
    callPc              \* "idle" or "returned"

storeVars  == <<maneuver, riderLoaded, rawNodes, taskGroup, storedFreq, dbOpen>>
argVars    == <<argRunid, forceRecalc, filterFreq, store>>
objVars    == <<pc, attrs, topSig, taskFromDatabase, tau, nrms, rawSignals,
                calibratedSignals, truncatedSignals, computedSignals,
                taskSignals, trace, exc, excStage, recomputed, wroteStore>>
runVars    == <<storeVars, argVars, objVars>>
sensorVars == <<sensorData, iterOrder, runDate, calibResult, sensorPc>>
signalVars == <<heap, truncatedAt, computedAt, truncatedWas, convCall,
                signalPc>>
scaleVars  == <<scaleCall, valuesOrder, calibratedNames, loopAt, calibPc,
                calibExc>>
syncVars   == <<sync, syncPc>>
callVars   == <<call, callPc>>
vars       == <<runVars, sensorVars, signalVars, scaleVars, syncVars,
                callVars>>

\* What the actions of one specification leave alone.
outsideRun    == <<sensorVars, signalVars, scaleVars, syncVars,
                   callVars>>
outsideSensor == <<runVars, signalVars, scaleVars, syncVars,
                   callVars>>
outsideSignal == <<runVars, sensorVars, scaleVars, syncVars,
                   callVars>>
outsideScale  == <<runVars, sensorVars, signalVars, syncVars,
                   callVars>>
outsideCall   == <<runVars, sensorVars, signalVars, scaleVars, syncVars>>
outsideSync   == <<runVars, sensorVars, signalVars, scaleVars,
                   callVars>>

(***************************************************************************)
(* Bounds of the model.                                                    *)
(***************************************************************************)
MaxMissing == 1     \* raw channels a run may lack
MaxTau     == 1     \* time shifts find_timeshift may return, 0..MaxTau
NRMSSpread == 1     \* normalized RMS values tried around the threshold
MaxFreq    == 3     \* filter frequencies 1..MaxFreq (see FreqTol)
MaxCalib   == 3     \* calibration records of one sensor
MaxDay     == 2     \* days of the month that time stamps use
MaxRaw     == 2     \* raw samples 1..MaxRaw (volts)
MaxVolt    == 2     \* supply voltages 1..MaxVolt
MaxCoef    == 1     \* slope 1..MaxCoef + 1, offset and bias 0..MaxCoef
MaxChannels == 2    \* raw signals of the run that calibrate_signals scales
GuessBeyond == 2    \* bump guesses from GuessBeyond below 0 to as far above 1 s
FminSpread == 2     \* how far from its seed fmin may end, in hundredths
MaxLen     == 4     \* samples of a signal or segment, 2..MaxLen
MaxFirst   == 2     \* index of the first sample of a bump section
MaxPeriod  == 2     \* sample periods 1..MaxPeriod, in ticks

(***************************************************************************)
(* Values.                                                                 *)
(***************************************************************************)
\* A filter frequency is None (not given), nan, or a float.
None   == [kind |-> "None", v |-> 0]
NaN    == [kind |-> "nan", v |-> 0]
Num(n) == [kind |-> "float", v |-> n]
Undefined == "undefined"
NoValue   == 0 - 1      \* tau and nrms before they are computed

\* Filter frequencies are floats; the model counts them in ticks of 5e-11 Hz,
\* so that the tolerance 1e-10 of Run.__init__ is FreqTol ticks.
FreqTol == 2
Freqs == {Num(n) : n \in 1..MaxFreq}

\* check_time_shift(0.15): normalized RMS values are counted in hundredths.
maxNRMS == 15
NRMSValues == (maxNRMS - NRMSSpread)..(maxNRMS + NRMSSpread)

CalibrationManeuvers ==
    {"Steer Dynamics Test", "System Test", "Static Calibration"}
Maneuvers == CalibrationManeuvers \cup {"Balance"}

\* The raw channels of the signal table and the name each carries once
\* scaled (calibData['signal']; channels that are not scaled keep their name).
NIRawCols == {"FrameAccelY", "SteerRateGyro", "SteerPotentiometer",
              "RollPotentiometer", "WheelSpeedMotor", "SteerTorqueSensor",
              "PullForceBridge", "FiveVolts", "ThreeVolts", "PushButton"}
VNRawCols == {"AccelerationX", "AccelerationY", "AccelerationZ",
              "AngularRateX", "AngularRateY", "AngularRateZ"}
rawDataCols == NIRawCols \cup VNRawCols

\* Channels some runs were recorded without.
OptionalRaw == {"PullForceBridge", "RollPotentiometer", "FrameAccelY",
                "AngularRateZ"}

scale(sig) ==
    CASE sig = "FrameAccelY"        -> "AccelerometerAccelerationY"
      [] sig = "SteerRateGyro"      -> "ForkRate"
      [] sig = "SteerPotentiometer" -> "SteerAngle"
      [] sig = "RollPotentiometer"  -> "RollAngle"
      [] sig = "WheelSpeedMotor"    -> "RearWheelRate"
      [] sig = "SteerTorqueSensor"  -> "SteerTubeTorque"
      [] sig = "PullForceBridge"    -> "PullForce"
      [] OTHER                      -> sig

KnownRun   == "00105"
UnknownRun == "99999"
RunIds     == {KnownRun, UnknownRun}


(***************************************************************************)
(* Reading the signal mappings.  A stage reads its inputs in the order of  *)
(* its source lines; an item is <<mapping, name>>, and <<"param", p>> is a *)
(* read of self.bicycleRiderParameters / self.bicycle, which exist only    *)
(* when load_rider ran.                                                    *)
(***************************************************************************)
Has(item) ==
    CASE item[1] = "calibrated" -> item[2] \in calibratedSignals
      [] item[1] = "truncated"  -> item[2] \in truncatedSignals
      [] item[1] = "computed"   -> item[2] \in computedSignals
      [] item[1] = "task"       -> item[2] \in taskSignals
      [] item[1] = "param"      -> riderLoaded

FirstMissing(reads) ==
    LET bad == {i \in 1..Len(reads) : ~Has(reads[i])}
    IN  IF bad = {} THEN 0 ELSE CHOOSE i \in bad : \A j \in bad : i <= j

\* A missing dictionary key raises KeyError, a missing attribute
\* AttributeError.
Raised(reads) ==
    LET i == FirstMissing(reads)
    IN  IF i = 0 THEN "none"
        ELSE IF reads[i][1] = "param" THEN "AttributeError" ELSE "KeyError"

From(map, names) == [i \in 1..Len(names) |-> <<map, names[i]>>]

\* Mutation: the signals are filtered whether or not a frequency was given.
AfterPipeline_always == "filter_top_signals"

\* process_raw_signals, lines 705-706, and the return into Run.__init__.
AfterPipeline == IF filterFreq # None THEN "filter_top_signals" ELSE "store"

\* Mutation: 'Static Calibration' is not among the excluded maneuvers.
AfterCalibration_two ==
    IF /\ maneuver # "Steer Dynamics Test"
       /\ maneuver # "System Test"
    THEN "compute_time_shift"
    ELSE IF filterFreq # None THEN "filter_top_signals" ELSE "store"

\* process_raw_signals, lines 692-703.
AfterCalibration ==
    IF /\ maneuver # "Steer Dynamics Test"
       /\ maneuver # "System Test"
       /\ maneuver # "Static Calibration"
    THEN "compute_time_shift"
    ELSE AfterPipeline

(***************************************************************************)
(* One compute_* stage: `guarded` says that the reads stand in a           *)
(* try/except AttributeError whose handler prints and skips the stage.     *)
(***************************************************************************)
Stage(name, next, reads, guarded, dst, writes) ==
    /\ pc = name
    /\ trace' = Append(trace, name)
    /\ LET e == Raised(reads) IN
         IF e = "none"
         THEN /\ pc' = next
              /\ computedSignals' = IF dst = "computed"
                                    THEN computedSignals \cup writes
                                    ELSE computedSignals
              /\ taskSignals' = IF dst = "task"
                                THEN taskSignals \cup writes
                                ELSE taskSignals
              /\ UNCHANGED <<exc, excStage>>
         ELSE IF guarded /\ e = "AttributeError"
         THEN /\ pc' = next
              /\ UNCHANGED <<computedSignals, taskSignals, exc, excStage>>
         ELSE /\ pc' = "raised"
              /\ exc' = e
              /\ excStage' = name
              /\ UNCHANGED <<computedSignals, taskSignals>>
    /\ UNCHANGED <<attrs, topSig, taskFromDatabase, tau, nrms, rawSignals,
                   calibratedSignals, truncatedSignals, recomputed,
                   wroteStore>>
    /\ UNCHANGED <<storeVars, argVars, outsideRun>>

(***************************************************************************)
(* Run.__init__                                                            *)
(***************************************************************************)
\* Lines 572-617: open the store, find the run's row, load the metadata and
\* the raw signals the run has.  get_row_num fails for a run id that is not
\* in the run table, and the exception leaves __init__ at once.
RunInit(rid, fr, ff, st) ==
    /\ pc \in {"idle", "done", "raised"}
    /\ argRunid' = rid /\ forceRecalc' = fr /\ filterFreq' = ff /\ store' = st
    /\ dbOpen' = TRUE
    /\ topSig' = Undefined /\ taskFromDatabase' = FALSE
    /\ tau' = NoValue /\ nrms' = NoValue
    /\ calibratedSignals' = {} /\ truncatedSignals' = {}
    /\ computedSignals' = {} /\ taskSignals' = {}
    /\ trace' = <<>> /\ recomputed' = FALSE /\ wroteStore' = FALSE
    /\ IF rid = KnownRun
       THEN /\ pc' = "load_task"
            /\ rawSignals' = rawNodes
            /\ attrs' = {"filterFreq", "metadata", "rawSignals", "bumpLength"}
                        \cup (IF riderLoaded
                              THEN {"bicycle", "bicycleRiderParameters"}
                              ELSE {})
            /\ exc' = "none" /\ excStage' = "none"
       ELSE /\ pc' = "raised"
            /\ rawSignals' = {}
            /\ attrs' = {"filterFreq"}
            /\ exc' = "IndexError" /\ excStage' = "get_row_num"
    /\ UNCHANGED <<maneuver, riderLoaded, rawNodes, taskGroup, storedFreq>>
    /\ UNCHANGED outsideRun

isnan(x) == x = NaN

abs(x) == IF x < 0 THEN -x ELSE x

\* Mutation: frequencies exactly the tolerance apart count as matching.
FreqMatches_loose(stored, requested) ==
    IF requested \in {None, NaN} /\ isnan(stored) THEN TRUE
    ELSE IF requested \in {None, NaN} \/ isnan(stored) THEN FALSE
    ELSE abs(stored.v - requested.v) <= FreqTol

\* Lines 636-657: the stored filter frequency against the requested one.
FreqMatches(stored, requested) ==
    LET newFilterFreq == IF requested = None THEN NaN ELSE requested
    IN  IF isnan(newFilterFreq) /\ isnan(stored) THEN TRUE
        ELSE IF isnan(newFilterFreq) \/ isnan(stored) THEN FALSE
        ELSE abs(stored.v - requested.v) < FreqTol

\* Lines 623-666: look for the cached task signals, close the store, and
\* decide whether to recompute.  dataset.close() is reached on every path of
\* this block that raises nothing.
RunLoadTask ==
    /\ pc = "load_task"
    /\ LET found == taskGroup # {}
           hit   == found /\ FreqMatches(storedFreq, filterFreq)
           force == forceRecalc \/ ~found \/ ~hit
       IN  /\ taskFromDatabase' = hit
           /\ dbOpen' = FALSE
           /\ recomputed' = force
           /\ IF force
              THEN /\ taskSignals' = {}
                   /\ attrs' = (attrs \cup {"taskFromDatabase"})
                               \ {"taskSignals"}
                   /\ pc' = "calibrate_signals"
              ELSE /\ taskSignals' = taskGroup
                   /\ attrs' = attrs \cup {"taskFromDatabase", "taskSignals"}
                   /\ pc' = "store"
    /\ UNCHANGED <<topSig, tau, nrms, rawSignals, calibratedSignals,
                   truncatedSignals, computedSignals, trace, exc, excStage,
                   wroteStore>>
    /\ UNCHANGED <<maneuver, riderLoaded, rawNodes, taskGroup, storedFreq>>
    /\ UNCHANGED <<argVars, outsideRun>>

\* DataSet.add_task_signals: the task signals and their summary replace the
\* run's group in the store; an unset filter frequency is stored as nan.
add_task_signals(signals, freq) ==
    /\ taskGroup' = signals
    /\ storedFreq' = IF freq = None THEN NaN ELSE freq

\* Lines 668-683: store the task signals if they are newly computed.
RunStore ==
    /\ pc = "store"
    /\ IF store /\ ~taskFromDatabase /\ "topSig" \notin attrs
       THEN /\ pc' = "raised"
            /\ exc' = "AttributeError" /\ excStage' = "__init__"
            /\ UNCHANGED <<taskGroup, storedFreq, wroteStore>>
       ELSE /\ pc' = "done"
            /\ IF store /\ ~taskFromDatabase /\ topSig = "task"
               THEN /\ add_task_signals(taskSignals, filterFreq)
                    /\ wroteStore' = TRUE
               ELSE UNCHANGED <<taskGroup, storedFreq, wroteStore>>
            /\ UNCHANGED <<exc, excStage>>
    /\ UNCHANGED <<attrs, topSig, taskFromDatabase, tau, nrms, rawSignals,
                   calibratedSignals, truncatedSignals, computedSignals,
                   taskSignals, trace, recomputed>>
    /\ UNCHANGED <<maneuver, riderLoaded, rawNodes, dbOpen>>
    /\ UNCHANGED <<argVars, outsideRun>>

(***************************************************************************)
(* Run.process_raw_signals and the stages it calls, one action per stage.  *)
(***************************************************************************)
\* Lines 724-733, then the maneuver test of process_raw_signals.
calibrate_signals ==
    /\ pc = "calibrate_signals"
    /\ trace' = Append(trace, "calibrate_signals")
    /\ calibratedSignals' = {scale(sig) : sig \in rawSignals}
    /\ topSig' = "calibrated"
    /\ attrs' = attrs \cup {"calibratedSignals", "topSig"}
    /\ pc' = AfterCalibration
    /\ UNCHANGED <<taskFromDatabase, tau, nrms, rawSignals, truncatedSignals,
                   computedSignals, taskSignals, exc, excStage, recomputed,
                   wroteStore>>
    /\ UNCHANGED <<storeVars, argVars, outsideRun>>

\* Lines 789-797: tau is whatever find_timeshift returns.
compute_time_shift ==
    /\ pc = "compute_time_shift"
    /\ trace' = Append(trace, "compute_time_shift")
    /\ LET e == Raised(From("calibrated",
                     <<"AccelerometerAccelerationY", "AccelerationZ">>))
       IN  IF e = "none"
           THEN /\ \E t \in 0..MaxTau : tau' = t
                /\ attrs' = attrs \cup {"tau"}
                /\ pc' = "check_time_shift"
                /\ UNCHANGED <<exc, excStage>>
           ELSE /\ pc' = "raised"
                /\ exc' = e /\ excStage' = "compute_time_shift"
                /\ UNCHANGED <<tau, attrs>>
    /\ UNCHANGED <<topSig, taskFromDatabase, nrms, rawSignals,
                   calibratedSignals, truncatedSignals, computedSignals,
                   taskSignals, recomputed, wroteStore>>
    /\ UNCHANGED <<storeVars, argVars, outsideRun>>

\* Mutation: the threshold is applied one hundredth too high.
nrmsTooHigh_lax(r, limit) == r > limit + 1

\* Line 816.
nrmsTooHigh(r, limit) == r > limit

\* Lines 799-819: the normalized RMS of the shifted accelerometer signals is
\* data dependent; TimeShiftError when it is above maxNRMS.
check_time_shift ==
    /\ pc = "check_time_shift"
    /\ trace' = Append(trace, "check_time_shift")
    /\ \E r \in NRMSValues :
         /\ nrms' = r
         /\ IF nrmsTooHigh(r, maxNRMS)
            THEN /\ pc' = "raised"
                 /\ exc' = "TimeShiftError" /\ excStage' = "check_time_shift"
            ELSE /\ pc' = "truncate_signals"
                 /\ UNCHANGED <<exc, excStage>>
    /\ UNCHANGED <<attrs, topSig, taskFromDatabase, tau, rawSignals,
                   calibratedSignals, truncatedSignals, computedSignals,
                   taskSignals, recomputed, wroteStore>>
    /\ UNCHANGED <<storeVars, argVars, outsideRun>>

\* Lines 781-787.
truncate_signals ==
    /\ pc = "truncate_signals"
    /\ trace' = Append(trace, "truncate_signals")
    /\ truncatedSignals' = calibratedSignals
    /\ topSig' = "truncated"
    /\ attrs' = attrs \cup {"truncatedSignals"}
    /\ pc' = "compute_signals"
    /\ UNCHANGED <<taskFromDatabase, tau, nrms, rawSignals, calibratedSignals,
                   computedSignals, taskSignals, exc, excStage, recomputed,
                   wroteStore>>
    /\ UNCHANGED <<storeVars, argVars, outsideRun>>

noChange == <<"FiveVolts", "PushButton", "RearWheelRate", "RollAngle",
              "SteerAngle", "ThreeVolts">>

\* Lines 757-770: the signals transferred unchanged; the loop stops at the
\* first one the truncated signals lack, keeping those already transferred.
compute_signals ==
    /\ pc = "compute_signals"
    /\ trace' = Append(trace, "compute_signals")
    /\ attrs' = attrs \cup {"computedSignals"}
    /\ LET i == FirstMissing(From("truncated", noChange))
       IN  IF i = 0
           THEN /\ computedSignals' = {noChange[k] : k \in 1..Len(noChange)}
                /\ pc' = "compute_pull_force"
                /\ UNCHANGED <<exc, excStage>>
           ELSE /\ computedSignals' = {noChange[k] : k \in 1..(i - 1)}
                /\ pc' = "raised"
                /\ exc' = "KeyError" /\ excStage' = "compute_signals"
    /\ UNCHANGED <<topSig, taskFromDatabase, tau, nrms, rawSignals,
                   calibratedSignals, truncatedSignals, taskSignals,
                   recomputed, wroteStore>>
    /\ UNCHANGED <<storeVars, argVars, outsideRun>>

\* Lines 1360-1373.
compute_pull_force ==
    Stage("compute_pull_force", "compute_frame_acceleration",
          From("truncated", <<"PullForce">>), TRUE,
          "computed", {"PullForce"})

\* Lines 1375-1403.
compute_frame_acceleration ==
    Stage("compute_frame_acceleration", "compute_forward_speed",
          From("truncated",
               <<"AccelerationX", "AccelerationY", "AccelerationZ">>), TRUE,
          "computed",
          {"FrameAccelerationX", "FrameAccelerationY", "FrameAccelerationZ"})

\* Lines 1343-1358.
compute_forward_speed ==
    Stage("compute_forward_speed", "compute_steer_rate",
          <<<<"param", "rR">>, <<"truncated", "RearWheelRate">>>>, TRUE,
          "computed", {"ForwardSpeed"})

\* Lines 1326-1341.
compute_steer_rate ==
    Stage("compute_steer_rate", "compute_yaw_roll_pitch_rates",
          From("truncated", <<"ForkRate", "AngularRateZ">>), TRUE,
          "computed", {"SteerRate"})

\* Lines 1295-1324.
compute_yaw_roll_pitch_rates ==
    Stage("compute_yaw_roll_pitch_rates", "compute_steer_torque",
          From("truncated", <<"AngularRateX", "AngularRateY", "AngularRateZ",
                              "RollAngle">>) \o <<<<"param", "lam">>>>, TRUE,
          "computed", {"YawRate", "RollRate", "PitchRate"})

\* Lines 1185-1247; the last stage of compute_signals.
compute_steer_torque ==
    Stage("compute_steer_torque", "task_signals",
          From("truncated", <<"AngularRateX", "AngularRateY", "AngularRateZ",
                              "AccelerationX", "AccelerationY",
                              "AccelerationZ", "ForkRate", "SteerAngle",
                              "SteerTubeTorque">>) \o <<<<"param", "mG">>>>,
          FALSE, "computed", {"SteerTorque"})

\* Lines 735-738 with extract_task, lines 1458-1498: every computed signal
\* is sliced into the task signals.
task_signals ==
    /\ pc = "task_signals"
    /\ trace' = Append(trace, "task_signals")
    /\ LET e == Raised(<<<<"truncated", "AccelerometerAccelerationY">>,
                         <<"computed", "ForwardSpeed">>,
                         <<"param", "w">>>>)
       IN  IF e = "none"
           THEN /\ taskSignals' = computedSignals
                /\ attrs' = attrs \cup {"taskSignals"}
                /\ pc' = "compute_yaw_angle"
                /\ UNCHANGED <<exc, excStage>>
           ELSE /\ pc' = "raised"
                /\ exc' = e /\ excStage' = "extract_task"
                /\ UNCHANGED <<taskSignals, attrs>>
    /\ UNCHANGED <<topSig, taskFromDatabase, tau, nrms, rawSignals,
                   calibratedSignals, truncatedSignals, computedSignals,
                   recomputed, wroteStore>>
    /\ UNCHANGED <<storeVars, argVars, outsideRun>>

\* Lines 1166-1183.
compute_yaw_angle ==
    Stage("compute_yaw_angle", "compute_rear_wheel_contact_rates",
          From("task", <<"YawRate">>), TRUE, "task", {"YawAngle"})

\* Lines 1140-1164.
compute_rear_wheel_contact_rates ==
    Stage("compute_rear_wheel_contact_rates",
          "compute_rear_wheel_contact_points",
          From("task", <<"YawAngle", "RearWheelRate">>)
              \o <<<<"param", "rR">>>>, TRUE,
          "task", {"LongitudinalRearContactRate", "LateralRearContactRate"})

\* Lines 821-846.
compute_rear_wheel_contact_points ==
    Stage("compute_rear_wheel_contact_points",
          "compute_front_wheel_contact_points",
          From("task", <<"LateralRearContactRate",
                         "LongitudinalRearContactRate">>), TRUE,
          "task", {"LateralRearContact", "LongitudinalRearContact"})

\* Lines 848-869.
compute_front_wheel_contact_points ==
    Stage("compute_front_wheel_contact_points",
          "compute_front_wheel_yaw_angle",
          From("task", <<"LongitudinalRearContact", "LateralRearContact",
                         "YawAngle", "RollAngle", "SteerAngle">>)
              \o <<<<"param", "d1">>>>, FALSE,
          "task", {"LongitudinalFrontContact", "LateralFrontContact"})

\* Lines 871-887.
compute_front_wheel_yaw_angle ==
    Stage("compute_front_wheel_yaw_angle", "compute_front_wheel_rate",
          <<<<"param", "lam">>>>
              \o From("task", <<"YawAngle", "RollAngle", "SteerAngle">>),
          FALSE, "task", {"FrontWheelYawAngle"})

\* Lines 889-910.
compute_front_wheel_rate ==
    Stage("compute_front_wheel_rate", "compute_contact_points_acceleration",
          From("task", <<"YawAngle", "RollAngle", "SteerAngle",
                         "LongitudinalFrontContact", "LateralFrontContact">>)
              \o <<<<"param", "lam">>>>, FALSE,
          "task", {"FrontWheelRate"})

\* Mutation: the lateral front contact acceleration is not stored.
compute_contact_points_acceleration_partial ==
    Stage("compute_contact_points_acceleration", "compute_steer_torque_slip",
          From("task", <<"FrameAccelerationX", "FrameAccelerationY",
                         "FrameAccelerationZ", "YawAngle", "RollAngle",
                         "SteerAngle", "YawRate", "RollRate", "PitchRate",
                         "SteerRate", "RearWheelRate", "FrontWheelRate">>)
              \o <<<<"param", "ds1">>>>, FALSE,
          "task", {"LongitudinalRearContactAcceleration",
                   "LateralRearContactAcceleration",
                   "DownwardRearContactAcceleration",
                   "LongitudinalFrontContactAcceleration",
                   "DownwardFrontContactAcceleration"})

\* Lines 1074-1138.
compute_contact_points_acceleration ==
    Stage("compute_contact_points_acceleration", "compute_steer_torque_slip",
          From("task", <<"FrameAccelerationX", "FrameAccelerationY",
                         "FrameAccelerationZ", "YawAngle", "RollAngle",
                         "SteerAngle", "YawRate", "RollRate", "PitchRate",
                         "SteerRate", "RearWheelRate", "FrontWheelRate">>)
              \o <<<<"param", "ds1">>>>, FALSE,
          "task", {"LongitudinalRearContactAcceleration",
                   "LateralRearContactAcceleration",
                   "DownwardRearContactAcceleration",
                   "LongitudinalFrontContactAcceleration",
                   "LateralFrontContactAcceleration",
                   "DownwardFrontContactAcceleration"})

\* Lines 912-954.
compute_steer_torque_slip ==
    Stage("compute_steer_torque_slip", "compute_contact_forces_slip",
          <<<<"param", "l1">>>>
              \o From("task", <<"ForwardSpeed", "RollAngle", "SteerAngle",
                                "YawRate", "RollRate", "SteerRate",
                                "LateralRearContactRate",
                                "LongitudinalFrontContact",
                                "LateralFrontContact",
                                "LateralRearContactAcceleration",
                                "LateralFrontContactAcceleration">>),
          FALSE, "task", {"SteerTorque_Slip"})

\* Lines 956-1021.
compute_contact_forces_slip ==
    Stage("compute_contact_forces_slip", "compute_contact_forces_nonslip",
          <<<<"param", "l1">>>>
              \o From("task", <<"ForwardSpeed", "YawAngle", "RollAngle",
                                "SteerAngle", "YawRate", "RollRate",
                                "PitchRate", "SteerRate", "RearWheelRate",
                                "FrontWheelRate",
                                "LongitudinalRearContactRate",
                                "LateralRearContactRate",
                                "LongitudinalFrontContact",
                                "LateralFrontContact",
                                "LongitudinalRearContactAcceleration",
                                "LateralRearContactAcceleration",
                                "LongitudinalFrontContactAcceleration",
                                "LateralFrontContactAcceleration">>),
          FALSE, "task", {"LongitudinalRearContactForce_Slip",
                          "LateralRearContactForce_Slip",
                          "LongitudinalFrontContactForce_Slip",
                          "LateralFrontContactForce_Slip"})

\* Lines 1023-1072.
compute_contact_forces_nonslip ==
    Stage("compute_contact_forces_nonslip", "task_signals_done",
          <<<<"param", "l1">>>>
              \o From("task", <<"YawAngle", "RollAngle", "SteerAngle",
                                "YawRate", "RollRate", "PitchRate",
                                "SteerRate", "RearWheelRate",
                                "FrontWheelRate">>),
          FALSE, "task", {"LongitudinalRearContactForce_Nonslip",
                          "LateralRearContactForce_Nonslip",
                          "LongitudinalFrontContactForce_Nonslip",
                          "LateralFrontContactForce_Nonslip"})

\* Line 752, then lines 705-706 of process_raw_signals.
task_signals_done ==
    /\ pc = "task_signals_done"
    /\ topSig' = "task"
    /\ pc' = AfterPipeline
    /\ UNCHANGED <<attrs, taskFromDatabase, tau, nrms, rawSignals,
                   calibratedSignals, truncatedSignals, computedSignals,
                   taskSignals, trace, exc, excStage, recomputed, wroteStore>>
    /\ UNCHANGED <<storeVars, argVars, outsideRun>>

\* Lines 708-722: the top most signals are replaced by their filtered
\* versions under the same names.
filter_top_signals ==
    /\ pc = "filter_top_signals"
    /\ trace' = Append(trace, "filter_top_signals")
    /\ IF "topSig" \in attrs
       THEN /\ pc' = "store"
            /\ UNCHANGED <<exc, excStage>>
       ELSE /\ pc' = "raised"
            /\ exc' = "AttributeError" /\ excStage' = "filter_top_signals"
    /\ UNCHANGED <<attrs, topSig, taskFromDatabase, tau, nrms, rawSignals,
                   calibratedSignals, truncatedSignals, computedSignals,
                   taskSignals, recomputed, wroteStore>>
    /\ UNCHANGED <<storeVars, argVars, outsideRun>>

(***************************************************************************)
(* The specification of Run: any run of the store, constructed any number  *)
(* of times with any arguments.                                            *)
(***************************************************************************)
MissingSets == {m \in SUBSET OptionalRaw : Cardinality(m) <= MaxMissing}

SensorIdle ==
    /\ sensorData = <<>> /\ iterOrder = <<>>
    /\ runDate = <<0, 0>> /\ calibResult = 0
    /\ sensorPc = "idle"

\* No Signal object exists and convert_units has not been called.
SignalIdle ==
    /\ heap = <<>> /\ truncatedAt = <<>> /\ computedAt = <<>>
    /\ truncatedWas = <<>>
    /\ convCall = [outcome |-> "none"]
    /\ signalPc = "idle"

\* No raw signal has been scaled.
ScaleIdle ==
    /\ scaleCall = [outcome |-> "none"]
    /\ valuesOrder = <<>> /\ calibratedNames = {} /\ loopAt = 0
    /\ calibPc = "idle" /\ calibExc = "none"

\* No synchronization call is under way.
SyncIdle ==
    /\ sync = [op |-> "none"]
    /\ syncPc = "idle"

\* No function has been called.
CallIdle ==
    /\ call = [op |-> "none"]
    /\ callPc = "idle"

\* No Run has been constructed and nothing is cached.
RunIdle ==
    /\ taskGroup = {} /\ storedFreq = NaN
    /\ dbOpen = FALSE
    /\ argRunid = KnownRun /\ forceRecalc = FALSE
    /\ filterFreq = None /\ store = FALSE
    /\ pc = "idle"
    /\ attrs = {}
    /\ topSig = Undefined /\ taskFromDatabase = FALSE
    /\ tau = NoValue /\ nrms = NoValue
    /\ rawSignals = {} /\ calibratedSignals = {} /\ truncatedSignals = {}
    /\ computedSignals = {} /\ taskSignals = {}
    /\ trace = <<>>
    /\ exc = "none" /\ excStage = "none"
    /\ recomputed = FALSE /\ wroteStore = FALSE

Init ==
    /\ maneuver \in Maneuvers
    /\ riderLoaded \in BOOLEAN
    /\ \E m \in MissingSets : rawNodes = rawDataCols \ m
    /\ RunIdle
    /\ SensorIdle
    /\ SignalIdle /\ ScaleIdle /\ SyncIdle /\ CallIdle

Next ==
    \/ \E rid \in RunIds, fr \in BOOLEAN, ff \in Freqs \cup {None, NaN},
          st \in BOOLEAN : RunInit(rid, fr, ff, st)
    \/ RunLoadTask
    \/ calibrate_signals
    \/ compute_time_shift
    \/ check_time_shift
    \/ truncate_signals
    \/ compute_signals
    \/ compute_pull_force
    \/ compute_frame_acceleration
    \/ compute_forward_speed
    \/ compute_steer_rate
    \/ compute_yaw_roll_pitch_rates
    \/ compute_steer_torque
    \/ task_signals
    \/ compute_yaw_angle
    \/ compute_rear_wheel_contact_rates
    \/ compute_rear_wheel_contact_points
    \/ compute_front_wheel_contact_points
    \/ compute_front_wheel_yaw_angle
    \/ compute_front_wheel_rate
    \/ compute_contact_points_acceleration
    \/ compute_steer_torque_slip
    \/ compute_contact_forces_slip
    \/ compute_contact_forces_nonslip
    \/ task_signals_done
    \/ filter_top_signals
    \/ RunStore

Spec == Init /\ [][Next]_vars

(***************************************************************************)
(* Sensor: the calibration records of one sensor and the choice of the     *)
(* record that applies to a run.                                           *)
(***************************************************************************)
\* A Matlab datestr() such as '21-Mar-2011 14:45:54', reduced to its day and
\* month; strptime makes a datetime of it, and datetimes compare by month
\* before day.
Months == {"Mar", "Apr"}
TimeStamps == [day : 1..MaxDay, mon : Months]

MonthNumber(mon) == CASE mon = "Mar" -> 3 [] mon = "Apr" -> 4

matlab_date_to_object(matDate) == <<MonthNumber(matDate.mon), matDate.day>>

\* a >= b on datetime objects.
DateGE(a, b) == a[1] > b[1] \/ (a[1] = b[1] /\ a[2] >= b[2])

IterationOrders(S) ==
    {p \in [1..Cardinality(S) -> S] : \A x \in S : \E i \in DOMAIN p : p[i] = x}

\* Lines 495-505: the rows of the calibration table that carry the sensor's
\* name, keyed by calibrationID; KeyError when there is none.  iterOrder is
\* the order in which the dictionary will be iterated.
store_calibration_data ==
    /\ sensorPc = "idle"
    /\ \E ids \in SUBSET (1..MaxCalib) :
         /\ \E d \in [ids -> TimeStamps] : sensorData' = d
         /\ \E p \in IterationOrders(ids) : iterOrder' = p
         /\ sensorPc' = IF ids = {} THEN "raised" ELSE "sensor"
    /\ calibResult' = 0
    /\ runDate' = <<0, 0>>
    /\ UNCHANGED outsideSensor

\* list.sort(key=lambda x: x[1], reverse=True), line 535: most recent first,
\* pairs of equal date in their original order.
RECURSIVE InsertByDate(_, _)
InsertByDate(sorted, pair) ==
    IF sorted = <<>> THEN <<pair>>
    ELSE IF DateGE(Head(sorted)[2], pair[2])
         THEN <<Head(sorted)>> \o InsertByDate(Tail(sorted), pair)
         ELSE <<pair>> \o sorted

RECURSIVE SortMostRecentFirst(_)
SortMostRecentFirst(pairs) ==
    IF pairs = <<>> THEN <<>>
    ELSE InsertByDate(SortMostRecentFirst(SubSeq(pairs, 1, Len(pairs) - 1)),
                      pairs[Len(pairs)])

\* Lines 532-533.
dateIdPairs ==
    [i \in DOMAIN iterOrder |->
        <<iterOrder[i], matlab_date_to_object(sensorData[iterOrder[i]])>>]

\* Mutation: the loop breaks only on a calibration strictly before the run.
LoopIndex_strict(pairs, date) ==
    LET hits == {i \in DOMAIN pairs :
                    DateGE(date, pairs[i][2]) /\ date # pairs[i][2]}
    IN  IF hits = {} THEN Len(pairs)
        ELSE CHOOSE i \in hits : \A j \in hits : i <= j

\* Lines 538-540: the value of i when the loop is left, by break or by
\* running out of pairs.
LoopIndex(pairs, date) ==
    LET hits == {i \in DOMAIN pairs : DateGE(date, pairs[i][2])}
    IN  IF hits = {} THEN Len(pairs)
        ELSE CHOOSE i \in hits : \A j \in hits : i <= j

\* Lines 507-541.
get_data_for_date(date) ==
    /\ sensorPc = "sensor"
    /\ runDate' = date
    /\ LET pairs == SortMostRecentFirst(dateIdPairs)
       IN  calibResult' = pairs[LoopIndex(pairs, date)][1]
    /\ sensorPc' = "returned"
    /\ UNCHANGED <<sensorData, iterOrder>>
    /\ UNCHANGED outsideSensor

SensorInit ==
    /\ maneuver = "Balance"
    /\ riderLoaded = TRUE
    /\ rawNodes = rawDataCols
    /\ RunIdle
    /\ SensorIdle
    /\ SignalIdle /\ ScaleIdle /\ SyncIdle /\ CallIdle

SensorNext ==
    \/ store_calibration_data
    \/ \E ts \in TimeStamps : get_data_for_date(matlab_date_to_object(ts))

SpecSensor == SensorInit /\ [][SensorNext]_vars

(***************************************************************************)
(* Properties.                                                             *)
(***************************************************************************)
Range(seq) == {seq[i] : i \in DOMAIN seq}

IsPrefix(a, b) == Len(a) <= Len(b) /\ \A i \in DOMAIN a : a[i] = b[i]

\* a and b both ran, a first.
RanBefore(a, b) ==
    \E i, j \in DOMAIN trace : i < j /\ trace[i] = a /\ trace[j] = b

Terminal == pc \in {"done", "raised"}

\* C1: for a maneuver that is not a calibration maneuver, check_time_shift
\* runs right after compute_time_shift and right before truncate_signals;
\* a normalized RMS above 0.15 raises TimeShiftError (and nothing else
\* does), and then the run holds no truncated, computed or task signals and
\* has written nothing to the store.
C1_TimeShiftErrorAborts ==
    /\ \A i \in DOMAIN trace :
         /\ trace[i] = "check_time_shift"
              => i > 1 /\ trace[i - 1] = "compute_time_shift"
         /\ trace[i] = "truncate_signals"
              => i > 1 /\ trace[i - 1] = "check_time_shift"
    /\ (nrms # NoValue /\ nrms > maxNRMS) <=> exc = "TimeShiftError"
    /\ exc = "TimeShiftError" =>
         /\ pc = "raised"
         /\ maneuver \notin CalibrationManeuvers
         /\ attrs \cap {"truncatedSignals", "computedSignals",
                        "taskSignals"} = {}
         /\ truncatedSignals = {} /\ computedSignals = {}
         /\ taskSignals = {}
         /\ ~wroteStore

C1_Witness ==
    /\ exc = "TimeShiftError" /\ pc = "raised" /\ store
    /\ trace = <<"calibrate_signals", "compute_time_shift",
                 "check_time_shift">>

(***************************************************************************)
(* Sensor.get_data_for_date                                                *)
(***************************************************************************)
DateOf(id) == matlab_date_to_object(sensorData[id])

\* The calibration was taken at or before the run.
NotAfterRun(id) == DateGE(runDate, DateOf(id))

\* C2: when some calibration record is dated at or before the run, the
\* record returned is dated at or before the run and no record at or before
\* the run is more recent than it.
C2_MostRecentNotAfterRun ==
    (sensorPc = "returned" /\ \E id \in DOMAIN sensorData : NotAfterRun(id))
        => /\ calibResult \in DOMAIN sensorData
           /\ NotAfterRun(calibResult)
           /\ \A id \in DOMAIN sensorData :
                  NotAfterRun(id) => DateGE(DateOf(calibResult), DateOf(id))

\* Three records, one after the run, and the one returned is neither the
\* first nor the last the dictionary yields.
C2_Witness ==
    /\ sensorPc = "returned"
    /\ Cardinality(DOMAIN sensorData) = 3
    /\ \E id \in DOMAIN sensorData : ~NotAfterRun(id)
    /\ \E id \in DOMAIN sensorData :
           NotAfterRun(id) /\ DateOf(id) # DateOf(calibResult)
    /\ NotAfterRun(calibResult)
    /\ calibResult = iterOrder[2]

\* C3: when every calibration record is dated after the run, the call
\* returns no record.
C3_NoRecordBeforeCalibrations ==
    (sensorPc = "returned" /\ \A id \in DOMAIN sensorData : ~NotAfterRun(id))
        => calibResult \notin DOMAIN sensorData

(***************************************************************************)
(* Run                                                                     *)
(***************************************************************************)
StageOrder == <<"calibrate_signals", "compute_time_shift",
                "check_time_shift", "truncate_signals", "compute_signals",
                "task_signals", "filter_top_signals">>

IsTopStage(s) == s \in Range(StageOrder)

ComputeStages == {"compute_pull_force", "compute_frame_acceleration",
                  "compute_forward_speed", "compute_steer_rate",
                  "compute_yaw_roll_pitch_rates", "compute_steer_torque"}

TaskStages == {"compute_yaw_angle", "compute_rear_wheel_contact_rates",
               "compute_rear_wheel_contact_points",
               "compute_front_wheel_contact_points",
               "compute_front_wheel_yaw_angle", "compute_front_wheel_rate",
               "compute_contact_points_acceleration",
               "compute_steer_torque_slip", "compute_contact_forces_slip",
               "compute_contact_forces_nonslip"}

Rank(t) == CASE t = Undefined    -> 0
             [] t = "calibrated" -> 1
             [] t = "truncated"  -> 2
             [] t = "computed"   -> 3
             [] t = "task"       -> 4

ExpectedStages ==
    IF filterFreq # None THEN StageOrder
    ELSE SubSeq(StageOrder, 1, Len(StageOrder) - 1)

C4_StagesInOrder ==
    (recomputed /\ maneuver \notin CalibrationManeuvers) =>
        /\ IsPrefix(SelectSeq(trace, IsTopStage), ExpectedStages)
        /\ pc \in {"store", "done"}
               => SelectSeq(trace, IsTopStage) = ExpectedStages
        /\ \A s \in ComputeStages \cap Range(trace) :
               RanBefore("compute_signals", s) /\ ~RanBefore("task_signals", s)
        /\ \A s \in TaskStages \cap Range(trace) :
               RanBefore("task_signals", s)
               /\ ~RanBefore("filter_top_signals", s)
        /\ pc = "task_signals" => ComputeStages \subseteq Range(trace)
        /\ pc = "filter_top_signals"
               => TaskStages \subseteq Range(trace) /\ topSig = "task"
        /\ \A i, j \in DOMAIN trace : trace[i] = trace[j] => i = j

C4_TopSigStep ==
    pc \notin {"idle", "done", "raised"} => Rank(topSig') >= Rank(topSig)

\* C4: a recomputed run of a maneuver that is not a calibration maneuver
\* goes through calibrate, compute time shift, check time shift, truncate,
\* compute, task extraction and (only with a filter frequency) filter, in
\* that order, each once and each after the one before it has finished; a
\* run that ends normally has gone through all of them; and topSig never
\* moves backwards.
C4_StageSequence == [](C4_StagesInOrder) /\ [][C4_TopSigStep]_vars

C4_Witness ==
    /\ pc = "done" /\ recomputed /\ maneuver = "Balance"
    /\ filterFreq # None /\ topSig = "task"
    /\ Len(SelectSeq(trace, IsTopStage)) = Len(StageOrder)

unset(freq) == freq \in {None, NaN}

\* Run.__init__ has decided between the cache and recomputation, for a
\* caller that did not ask for forceRecalc, and the store is as it found it.
C6_Decided ==
    /\ pc \notin {"idle", "load_task"} /\ excStage # "get_row_num"
    /\ ~wroteStore /\ ~forceRecalc

C6_Loaded ==
    /\ taskFromDatabase /\ ~recomputed
    /\ "taskSignals" \in attrs /\ taskSignals = taskGroup
    /\ trace = <<>>

C7_NewTaskSignalsStored ==
    (pc = "done" /\ recomputed /\ topSig = "task" /\ store) => wroteStore

\* C8: no terminal state of Run.__init__ leaves the connection open.
C8_ConnectionClosedOnExit == Terminal => ~dbOpen

\* C9: a missing input of a compute_* stage never leaves Run.__init__ as an
\* exception.
C9_MissingInputSkipped ==
    exc = "KeyError" => excStage \notin (ComputeStages \cup TaskStages)

MustPrecede ==
    {<<"compute_signals", "task_signals">>,
     <<"compute_yaw_angle", "compute_rear_wheel_contact_rates">>,
     <<"compute_rear_wheel_contact_rates",
       "compute_front_wheel_contact_points">>,
     <<"compute_rear_wheel_contact_points",
       "compute_front_wheel_contact_points">>,
     <<"compute_front_wheel_contact_points",
       "compute_front_wheel_yaw_angle">>,
     <<"compute_front_wheel_contact_points", "compute_front_wheel_rate">>,
     <<"compute_contact_points_acceleration", "compute_steer_torque_slip">>,
     <<"compute_contact_points_acceleration", "compute_contact_forces_slip">>,
     <<"compute_contact_points_acceleration",
       "compute_contact_forces_nonslip">>}
    \cup {<<s, "compute_contact_points_acceleration">> :
            s \in {"compute_yaw_angle", "compute_rear_wheel_contact_rates",
                   "compute_rear_wheel_contact_points",
                   "compute_front_wheel_contact_points",
                   "compute_front_wheel_yaw_angle",
                   "compute_front_wheel_rate"}}

\* C10: a stage that has run was preceded by every stage that produces its
\* inputs, and on a complete set of raw signals no stage reads a signal name
\* that is not in the mapping it reads (no KeyError).
C10_InputsComputedFirst ==
    /\ \A p \in MustPrecede : p[2] \in Range(trace) => RanBefore(p[1], p[2])
    /\ rawNodes = rawDataCols => exc # "KeyError"
    /\ (rawNodes = rawDataCols /\ pc = "task_signals_done")
           => TaskStages \subseteq Range(trace)

C10_Witness ==
    /\ rawNodes = rawDataCols /\ pc = "done" /\ topSig = "task"
    /\ "compute_contact_forces_nonslip" \in Range(trace)
    /\ "SteerTorque_Slip" \in taskSignals

(***************************************************************************)
(* Signal objects.  A mapping of a Run holds references to Signal objects; *)
(* SpecSignal follows compute_signals and task_signals object by object,   *)
(* and calls convert_units of both implementations on one Signal.          *)
(***************************************************************************)
\* Signal.conversions, lines 89-95 (DataProcessor.py 70-76): the key
\* 'a->b' is the pair <<a, b>>.
conversions ==
    {<<"degree", "radian">>,
     <<"degree/second", "radian/second">>,
     <<"degree/second/second", "radian/second/second">>,
     <<"inch*pound", "newton*meter">>,
     <<"pound", "newton">>,
     <<"feet/second", "meter/second">>,
     <<"mile/hour", "meter/second">>}

\* An attribute that is None, as __array_wrap__ leaves name and units.
NoneAttr == "<None>"

\* Units of the signal table and of the conversions.
Units ==
    {c[1] : c \in conversions} \cup {c[2] : c \in conversions}
        \cup {"volts", "meter/second/second"}

\* The samples of an array: the stored value and the floating-point
\* operations applied to it since, in order.
Samples(n) == [raw |-> n, ops |-> <<>>]
Times(samples, factor) == [samples EXCEPT !.ops = Append(@, <<"*", factor>>)]
Over(samples, factor)  == [samples EXCEPT !.ops = Append(@, <<"/", factor>>)]

\* main.py, lines 171-204.  The result is the receiver itself ("self"), a
\* new Signal ("new"), or an exception; None + '->' is a TypeError.  The
\* new Signal is built from the product and as_dictionary() of the
\* receiver, so it has the receiver's attributes but for the units.
convert_units_main(s, units) ==
    IF units = s.units THEN [outcome |-> "self", sig |-> s]
    ELSE IF s.units = NoneAttr THEN [outcome |-> "TypeError", sig |-> s]
    ELSE IF <<s.units, units>> \in conversions
    THEN [outcome |-> "new",
          sig |-> [s EXCEPT !.units = units,
                           !.samples = Times(s.samples, <<s.units, units>>)]]
    ELSE IF <<units, s.units>> \in conversions
    THEN [outcome |-> "new",
          sig |-> [s EXCEPT !.units = units,
                           !.samples = Over(s.samples, <<units, s.units>>)]]
    ELSE [outcome |-> "KeyError", sig |-> s]

\* DataProcessor.py, lines 207-236: no test for equal units, and the result
\* is the product itself, whose name, source and units __array_wrap__
\* (lines 132-139) set to None; the units are assigned afterwards.
convert_units_legacy(s, units) ==
    IF s.units = NoneAttr THEN [outcome |-> "TypeError", sig |-> s]
    ELSE IF <<s.units, units>> \in conversions
    THEN [outcome |-> "new",
          sig |-> [s EXCEPT !.name = NoneAttr, !.source = NoneAttr,
                           !.units = units,
                           !.samples = Times(s.samples, <<s.units, units>>)]]
    ELSE IF <<units, s.units>> \in conversions
    THEN [outcome |-> "new",
          sig |-> [s EXCEPT !.name = NoneAttr, !.source = NoneAttr,
                           !.units = units,
                           !.samples = Over(s.samples, <<units, s.units>>)]]
    ELSE [outcome |-> "KeyError", sig |-> s]

Implementations == {"main.py", "DataProcessor.py"}

convert_units(impl, s, units) ==
    IF impl = "main.py" THEN convert_units_main(s, units)
    ELSE convert_units_legacy(s, units)

\* One call of convert_units on a Signal; receiver is the Signal after the
\* call.
convert_units_call(impl, s, units) ==
    /\ signalPc = "idle"
    /\ LET r == convert_units(impl, s, units)
       IN  convCall' = [outcome |-> r.outcome, impl |-> impl, before |-> s,
                        target |-> units, receiver |-> s, result |-> r.sig]
    /\ signalPc' = "converted"
    /\ UNCHANGED <<heap, truncatedAt, computedAt, truncatedWas>>
    /\ UNCHANGED outsideSignal

\* The keys of truncatedSignals that compute_signals reads, and the units
\* each may carry: those of the signal table for the VN channels, and for a
\* scaled channel the units its calibration records may give.
TruncatedKeys ==
    <<"PullForce", "AccelerationX", "AccelerationY", "AccelerationZ",
      "RollAngle", "SteerAngle", "RearWheelRate", "ForkRate",
      "AngularRateX", "AngularRateY", "AngularRateZ", "SteerTubeTorque",
      "FiveVolts", "ThreeVolts", "PushButton">>

\* The units a key carries when its calibration records give another unit
\* than the usual one, and the usual one.
TwoUnitKeys == {"PullForce", "RollAngle", "SteerAngle", "RearWheelRate",
                "ForkRate", "SteerTubeTorque"}

UnitsOf(key, other) ==
    CASE key = "PullForce" -> IF other THEN "newton" ELSE "pound"
      [] key \in {"AccelerationX", "AccelerationY", "AccelerationZ"}
            -> "meter/second/second"
      [] key \in {"RollAngle", "SteerAngle"}
            -> IF other THEN "radian" ELSE "degree"
      [] key \in {"RearWheelRate", "ForkRate"}
            -> IF other THEN "degree/second" ELSE "radian/second"
      [] key \in {"AngularRateX", "AngularRateY", "AngularRateZ"}
            -> "degree/second"
      [] key = "SteerTubeTorque"
            -> IF other THEN "inch*pound" ELSE "newton*meter"
      [] OTHER -> "volts"

Put(f, k, v) == [x \in DOMAIN f \cup {k} |-> IF x = k THEN v ELSE f[x]]

\* Lines 781-787: every entry is a new Signal that carries the key as name.
truncate_signals_objects ==
    /\ signalPc = "idle"
    /\ \E others \in SUBSET TwoUnitKeys :
         heap' = [i \in DOMAIN TruncatedKeys |->
                    [name |-> TruncatedKeys[i],
                     units |-> UnitsOf(TruncatedKeys[i],
                                       TruncatedKeys[i] \in others),
                     samples |-> Samples(i)]]
    /\ truncatedAt' = [k \in Range(TruncatedKeys) |->
                         CHOOSE i \in DOMAIN TruncatedKeys : TruncatedKeys[i] = k]
    /\ truncatedWas' = [k \in Range(TruncatedKeys) |-> heap'[truncatedAt'[k]]]
    /\ computedAt' = <<>>
    /\ signalPc' = "compute_signals"
    /\ UNCHANGED convCall
    /\ UNCHANGED outsideSignal

\* The state a stage works on: the heap, computedSignals, and "ok" or the
\* exception raised so far.
Here == [heap |-> heap, computed |-> computedAt, outcome |-> "ok"]

\* x.convert_units(target): the object the call returns, allocated when new.
Convert(st, id, target) ==
    LET r == convert_units("main.py", st.heap[id], target)
    IN  CASE r.outcome = "self" -> [st |-> st, id |-> id]
          [] r.outcome = "new"
               -> [st |-> [st EXCEPT !.heap = Append(@, r.sig)],
                   id |-> Len(st.heap) + 1]
          [] OTHER -> [st |-> [st EXCEPT !.outcome = r.outcome], id |-> id]

\* sig = truncatedSignals[key].convert_units(target); sig.name = name;
\* sig.units = target; computedSignals[name] = sig.
ConvertRelabelStore(st, key, target, name) ==
    IF st.outcome # "ok" THEN st
    ELSE LET c == Convert(st, truncatedAt[key], target)
         IN  IF c.st.outcome # "ok" THEN c.st
             ELSE [c.st EXCEPT !.heap[c.id].name = name,
                               !.heap[c.id].units = target,
                               !.computed = Put(@, name, c.id)]

\* computedSignals[key] = truncatedSignals[key].convert_units(target)
ConvertStore(st, key, target) ==
    IF st.outcome # "ok" THEN st
    ELSE LET c == Convert(st, truncatedAt[key], target)
         IN  IF c.st.outcome # "ok" THEN c.st
             ELSE [c.st EXCEPT !.computed = Put(@, key, c.id)]

\* A local is converted and used as an operand only.
ConvertOperand(st, key, target) ==
    IF st.outcome # "ok" THEN st ELSE Convert(st, truncatedAt[key], target).st

\* The result of an arithmetic expression or of a library function is a new
\* array, which the stage names and stores.
StoreResult(st, name, units) ==
    IF st.outcome # "ok" THEN st
    ELSE [st EXCEPT !.heap = Append(@, [name |-> name, units |-> units,
                                        samples |-> Samples(0)]),
                    !.computed = Put(@, name, Len(st.heap) + 1)]

Leave(st, next) ==
    /\ heap' = st.heap
    /\ computedAt' = st.computed
    /\ signalPc' = IF st.outcome = "ok" THEN next ELSE "raised"
    /\ UNCHANGED <<truncatedAt, truncatedWas, convCall>>
    /\ UNCHANGED outsideSignal

\* Lines 757-770: the signals copied to computedSignals.
compute_signals_objects ==
    /\ signalPc = "compute_signals"
    /\ LET same == [Here EXCEPT !.computed =
                      [k \in {"FiveVolts", "PushButton", "RearWheelRate",
                              "ThreeVolts"} |-> truncatedAt[k]]]
       IN  Leave(ConvertStore(ConvertStore(same, "RollAngle", "radian"),
                              "SteerAngle", "radian"),
                 "compute_pull_force")

\* Lines 1360-1373.
compute_pull_force_objects ==
    /\ signalPc = "compute_pull_force"
    /\ Leave(ConvertRelabelStore(Here, "PullForce", "newton", "PullForce"),
             "compute_frame_acceleration")

\* Lines 1375-1403.
compute_frame_acceleration_objects ==
    /\ signalPc = "compute_frame_acceleration"
    /\ Leave(ConvertRelabelStore(
               ConvertRelabelStore(
                 ConvertRelabelStore(Here, "AccelerationX",
                     "meter/second/second", "FrameAccelerationX"),
                 "AccelerationY", "meter/second/second", "FrameAccelerationY"),
               "AccelerationZ", "meter/second/second", "FrameAccelerationZ"),
             "compute_forward_speed")

\* Lines 1343-1358: -rR * rearWheelRate is a new array.
compute_forward_speed_objects ==
    /\ signalPc = "compute_forward_speed"
    /\ Leave(StoreResult(ConvertOperand(Here, "RearWheelRate", "radian/second"),
                         "ForwardSpeed", "meter/second"),
             "compute_steer_rate")

\* Lines 1326-1341.
compute_steer_rate_objects ==
    /\ signalPc = "compute_steer_rate"
    /\ Leave(StoreResult(
               ConvertOperand(ConvertOperand(Here, "ForkRate", "radian/second"),
                              "AngularRateZ", "radian/second"),
               "SteerRate", "radian/second"),
             "compute_yaw_roll_pitch_rates")

\* Lines 1295-1324.
compute_yaw_roll_pitch_rates_objects ==
    /\ signalPc = "compute_yaw_roll_pitch_rates"
    /\ LET ops == ConvertOperand(ConvertOperand(ConvertOperand(ConvertOperand(
                      Here, "AngularRateX", "radian/second"),
                      "AngularRateY", "radian/second"),
                      "AngularRateZ", "radian/second"),
                      "RollAngle", "radian")
       IN  Leave(StoreResult(StoreResult(StoreResult(ops,
                     "YawRate", "radian/second"),
                     "RollRate", "radian/second"),
                     "PitchRate", "radian/second"),
                 "compute_steer_torque")

\* Lines 1185-1247.
compute_steer_torque_objects ==
    /\ signalPc = "compute_steer_torque"
    /\ Leave(StoreResult(ConvertOperand(Here, "SteerTubeTorque", "newton*meter"),
                         "SteerTorque", "newton*meter"),
             "task_signals")

\* Lines 1496-1498 and 735-752: a slice is a new array with the metadata of
\* the array it was cut from; the task stages work on taskSignals.
task_signals_objects ==
    /\ signalPc = "task_signals"
    /\ heap' = heap \o [i \in 1..Len(heap) |-> heap[i]]
    /\ signalPc' = "done"
    /\ UNCHANGED <<truncatedAt, computedAt, truncatedWas, convCall>>
    /\ UNCHANGED outsideSignal

\* Signals that convert_units may be called on.
SomeSignals ==
    [name : {"RollAngle"}, units : Units \cup {NoneAttr},
     samples : {Samples(1)}, runid : {"00105"}, sampleRate : {200},
     source : {"NI", "VN"}]

SignalInit ==
    /\ maneuver = "Balance"
    /\ riderLoaded = TRUE
    /\ rawNodes = rawDataCols
    /\ RunIdle
    /\ SensorIdle
    /\ SignalIdle /\ ScaleIdle /\ SyncIdle /\ CallIdle

SignalNext ==
    \/ \E impl \in Implementations, s \in SomeSignals, units \in Units :
          convert_units_call(impl, s, units)
    \/ truncate_signals_objects
    \/ compute_signals_objects
    \/ compute_pull_force_objects
    \/ compute_frame_acceleration_objects
    \/ compute_forward_speed_objects
    \/ compute_steer_rate_objects
    \/ compute_yaw_roll_pitch_rates_objects
    \/ compute_steer_torque_objects
    \/ task_signals_objects

SpecSignal == SignalInit /\ [][SignalNext]_vars

\* C11: once truncate_signals has finished, every entry truncatedSignals[k]
\* keeps the name k and the units and samples it had then, through
\* compute_signals and task_signals.
C11_TruncatedSignalsKept ==
    signalPc \notin {"idle", "converted"} =>
        \A k \in DOMAIN truncatedAt :
            /\ heap[truncatedAt[k]].name = k
            /\ heap[truncatedAt[k]] = truncatedWas[k]

\* C20: convert_units(target) succeeds exactly when target is the signal's
\* units or a factor is registered for the pair in either direction, and
\* fails with the KeyError of the conversion otherwise, leaving the signal
\* as it was; with equal units the result has the same samples, with a
\* registered pair the samples times the factor (or over the reverse
\* factor) and the target units.
C20_ConvertUnitsContract ==
    signalPc = "converted" =>
        LET c == convCall
            same == c.target = c.before.units
            forward == <<c.before.units, c.target>> \in conversions
            reverse == <<c.target, c.before.units>> \in conversions
            success == c.outcome \in {"self", "new"}
        IN  /\ success <=> (same \/ forward \/ reverse)
            /\ ~success => c.outcome = "KeyError" /\ c.receiver = c.before
            /\ success /\ same => c.result.samples = c.before.samples
            /\ success /\ ~same => c.result.units = c.target
            /\ success /\ ~same /\ forward =>
                 c.result.samples =
                     Times(c.before.samples, <<c.before.units, c.target>>)
            /\ success /\ ~same /\ ~forward =>
                 c.result.samples =
                     Over(c.before.samples, <<c.target, c.before.units>>)

(***************************************************************************)
(* RawSignal.scale, in both implementations, and the loop of               *)
(* calibrate_signals.  Numbers are rationals <<numerator, denominator>>.   *)
(***************************************************************************)
Rat(n) == <<n, 1>>
RatMul(a, b) == <<a[1] * b[1], a[2] * b[2]>>
RatDiv(a, b) == <<a[1] * b[2], a[2] * b[1]>>
RatAdd(a, b) == <<a[1] * b[2] + b[1] * a[2], a[2] * b[2]>>
RatSub(a, b) == <<a[1] * b[2] - b[1] * a[2], a[2] * b[2]>>
RatEq(a, b)  == a[1] * b[2] = b[1] * a[2]

\* fill_tables: the calibration kind the signal table gives a channel.
calibration(sig) ==
    CASE sig \in {"FrameAccelX", "FrameAccelY", "FrameAccelZ", "SteerRateGyro"}
            -> "bias"
      [] sig \in {"SteerPotentiometer", "RollPotentiometer",
                  "LeanPotentiometer", "HipPotentiometer",
                  "TwistPotentiometer"} -> "interceptStar"
      [] sig \in {"WheelSpeedMotor", "SteerTorqueSensor", "PullForceBridge"}
            -> "intercept"
      [] sig \in {"SeatpostBridge1"} -> "matrix"
      [] OTHER -> "none"

\* Calibration kinds a row of the signal table may hold; 'na' is the kind of
\* the processed signals, which scale does not recognise.
CalibrationTypes == {"none", "matrix", "interceptStar", "intercept", "bias", "na"}

\* Mutation: LeanPotentiometer is scaled like any potentiometer.
doNotScale_two == {"HipPotentiometer", "TwistPotentiometer"}

\* Lines 406-408.
doNotScale == {"LeanPotentiometer", "HipPotentiometer", "TwistPotentiometer"}

\* The units of the signal table for a raw channel, and of the calibration
\* records for the scaled signal.
rawUnits(sig) == IF sig \in NIRawCols \/ calibration(sig) # "none"
                 THEN "volts" ELSE "meter/second/second"
calibUnits(sig) ==
    CASE calibration(sig) = "bias" -> "meter/second/second"
      [] calibration(sig) = "interceptStar" -> "degree"
      [] OTHER -> "pound"

\* What the sensor of a raw signal holds: no attribute (the calibration
\* table has no row of that name), only records dated after the run, or a
\* record dated at or before it.  get_data_for_date returns a record in the
\* last two cases.
SensorStates == {"NoRecords", "OnlyLater", "Dated"}

\* Lines 428-443 of main.py.
equation_main(kind, raw, supply, d) ==
    LET ratio == RatDiv(Rat(d.calibrationSupplyVoltage), Rat(supply))
    IN  CASE kind = "interceptStar"
               -> RatAdd(RatMul(RatMul(ratio, Rat(d.slope)), Rat(raw)),
                         Rat(d.offset))
          [] kind = "intercept"
               -> RatMul(ratio, RatAdd(RatMul(Rat(d.slope), Rat(raw)),
                                       Rat(d.offset)))
          [] kind = "bias"
               -> RatMul(Rat(d.slope),
                         RatSub(Rat(raw),
                                RatMul(RatDiv(Rat(supply),
                                              Rat(d.calibrationSupplyVoltage)),
                                       Rat(d.bias))))

\* Lines 385-395 of DataProcessor.py.
equation_legacy(kind, raw, supply, d) ==
    LET ratio == RatDiv(Rat(d.calibrationSupplyVoltage), Rat(supply))
    IN  CASE kind = "interceptStar"
               -> RatAdd(RatMul(RatMul(ratio, Rat(d.slope)), Rat(raw)),
                         Rat(d.offset))
          [] kind = "intercept"
               -> RatMul(ratio, RatAdd(RatMul(Rat(d.slope), Rat(raw)),
                                       Rat(d.offset)))
          [] kind = "bias"
               -> RatMul(RatMul(ratio, Rat(d.slope)),
                         RatSub(Rat(raw), Rat(d.bias)))

\* RawSignal.scale, main.py lines 390-449 and DataProcessor.py 349-400.
\* consulted says that get_data_for_date was called.
RawSignal_scale(impl, sig) ==
    IF sig.calibrationType \in {"none", "matrix"} \/ sig.name \in doNotScale
    THEN [outcome |-> "self", name |-> sig.name, units |-> sig.units,
          sample |-> Rat(sig.raw), consulted |-> FALSE]
    ELSE IF sig.sensor = "NoRecords"
    THEN [outcome |-> "AttributeError", name |-> sig.name, units |-> sig.units,
          sample |-> Rat(sig.raw), consulted |-> FALSE]
    ELSE IF sig.calibrationType \notin {"interceptStar", "intercept", "bias"}
    THEN [outcome |-> "StandardError", name |-> sig.name, units |-> sig.units,
          sample |-> Rat(sig.raw), consulted |-> TRUE]
    ELSE [outcome |-> "scaled", name |-> scale(sig.name),
          units |-> calibUnits(sig.name),
          sample |-> IF impl = "main.py"
                     THEN equation_main(sig.calibrationType, sig.raw,
                                        sig.supply, sig.calibData)
                     ELSE equation_legacy(sig.calibrationType, sig.raw,
                                          sig.supply, sig.calibData),
          consulted |-> TRUE]

calibDataRows ==
    [slope : 1..(MaxCoef + 1), offset : 0..MaxCoef, bias : 0..MaxCoef,
     calibrationSupplyVoltage : 1..MaxVolt]

oneRow == [slope |-> 1, offset |-> 0, bias |-> 0,
           calibrationSupplyVoltage |-> 1]

\* RawSignal.__new__, lines 295-368: a raw signal as read from the store.
RawSignal(name, kind, sensor, raw, supply, row) ==
    [name |-> name, calibrationType |-> kind, units |-> rawUnits(name),
     sensor |-> sensor, raw |-> raw, supply |-> supply, calibData |-> row]

\* One call of scale on a raw signal of any name, kind and sensor.
scale_call(impl, sig) ==
    /\ calibPc = "idle" /\ scaleCall.outcome = "none"
    /\ LET r == RawSignal_scale(impl, sig)
       IN  scaleCall' = [outcome |-> r.outcome, impl |-> impl, sig |-> sig,
                         result |-> r]
    /\ UNCHANGED <<valuesOrder, calibratedNames, loopAt, calibPc, calibExc>>
    /\ UNCHANGED outsideScale

ScaleNames == {"FrameAccelY", "SteerPotentiometer", "LeanPotentiometer",
               "AccelerationZ"}

ScaleInputs ==
    {RawSignal(n, k, s, x, v, row) :
        n \in ScaleNames, k \in CalibrationTypes, s \in {"NoRecords"},
        x \in {1}, v \in {1}, row \in {oneRow}}
    \cup
    {RawSignal(n, k, s, x, v, row) :
        n \in ScaleNames, k \in CalibrationTypes,
        s \in SensorStates \ {"NoRecords"},
        x \in 1..MaxRaw, v \in 1..MaxVolt, row \in calibDataRows}

\* The raw signals of a run, with the kind the signal table gives each.
CalibChannels == ScaleNames \cup {"PullForceBridge"}

RunSignal(name, sensor) ==
    RawSignal(name, calibration(name), sensor, 1, 1, oneRow)

\* Lines 728-729: self.calibratedSignals = {} and the order in which
\* self.rawSignals.values() will be gone through.
calibrate_signals_begin ==
    /\ calibPc = "idle" /\ scaleCall.outcome = "none"
    /\ \E names \in SUBSET CalibChannels :
         /\ names # {} /\ Cardinality(names) <= MaxChannels
         /\ \E order \in IterationOrders(names),
               sensors \in [names -> SensorStates] :
              valuesOrder' = [i \in DOMAIN order |->
                                RunSignal(order[i], sensors[order[i]])]
    /\ calibratedNames' = {}
    /\ loopAt' = 1
    /\ calibPc' = "loop"
    /\ UNCHANGED <<scaleCall, calibExc>>
    /\ UNCHANGED outsideScale

\* Lines 729-731: one pass of the loop; an exception of scale leaves
\* calibrate_signals.
calibrate_signals_pass ==
    /\ calibPc = "loop" /\ loopAt <= Len(valuesOrder)
    /\ LET calibSig == RawSignal_scale("main.py", valuesOrder[loopAt])
       IN  IF calibSig.outcome \in {"self", "scaled"}
           THEN /\ calibratedNames' = calibratedNames \cup {calibSig.name}
                /\ loopAt' = loopAt + 1
                /\ UNCHANGED <<calibPc, calibExc>>
           ELSE /\ calibPc' = "raised"
                /\ calibExc' = calibSig.outcome
                /\ UNCHANGED <<calibratedNames, loopAt>>
    /\ UNCHANGED <<scaleCall, valuesOrder>>
    /\ UNCHANGED outsideScale

\* Line 733.
calibrate_signals_end ==
    /\ calibPc = "loop" /\ loopAt > Len(valuesOrder)
    /\ calibPc' = "done"
    /\ UNCHANGED <<scaleCall, valuesOrder, calibratedNames, loopAt, calibExc>>
    /\ UNCHANGED outsideScale

ScaleInit ==
    /\ maneuver = "Balance"
    /\ riderLoaded = TRUE
    /\ rawNodes = rawDataCols
    /\ RunIdle
    /\ SensorIdle
    /\ SignalIdle /\ ScaleIdle /\ SyncIdle /\ CallIdle

ScaleNext ==
    \/ \E impl \in Implementations, sig \in ScaleInputs : scale_call(impl, sig)
    \/ calibrate_signals_begin
    \/ calibrate_signals_pass
    \/ calibrate_signals_end

SpecScale == ScaleInit /\ [][ScaleNext]_vars

\* A raw signal whose sensor cannot give a record for the run.
Uncalibrated(sig) ==
    /\ sig.calibrationType \notin {"none", "matrix"}
    /\ sig.name \notin doNotScale
    /\ sig.sensor \in {"NoRecords", "OnlyLater"}

\* C12: when calibrate_signals is over, by return or by exception, every
\* raw channel other than those whose sensor has no record for the run is
\* in calibratedSignals under its scaled name.
C12_FailureConfinedToChannel ==
    calibPc \in {"done", "raised"} =>
        \A i \in DOMAIN valuesOrder :
            ~Uncalibrated(valuesOrder[i]) =>
                scale(valuesOrder[i].name) \in calibratedNames

\* C18: scale returns the raw signal itself (its samples, name and units)
\* without asking the sensor for a record exactly when calibrationType is
\* 'none' or 'matrix' or the name is LeanPotentiometer, HipPotentiometer or
\* TwistPotentiometer, whatever the kind and the sensor of such a name.
C18_PassThroughIffExempt ==
    scaleCall.outcome # "none" =>
        LET sig == scaleCall.sig
            out == scaleCall.result
            exempt == \/ sig.calibrationType \in {"none", "matrix"}
                      \/ sig.name \in {"LeanPotentiometer", "HipPotentiometer",
                                       "TwistPotentiometer"}
        IN  exempt <=> /\ out.outcome = "self"
                       /\ out.name = sig.name /\ out.units = sig.units
                       /\ out.sample = Rat(sig.raw)
                       /\ ~out.consulted

C18_Witness ==
    /\ scaleCall.outcome = "self"
    /\ scaleCall.sig.name = "LeanPotentiometer"
    /\ scaleCall.sig.calibrationType = "na"
    /\ scaleCall.sig.sensor = "NoRecords"

\* C19: a scaled sample is c/s*slope*raw + offset for interceptStar,
\* c/s*(slope*raw + offset) for intercept and slope*(raw - s/c*bias) for
\* bias, with s the supply voltage of the run and c the supply voltage of
\* the calibration, in main.py and in DataProcessor.py alike.
C19_ScaleEquations ==
    scaleCall.outcome = "scaled" =>
        LET sig == scaleCall.sig
            d == sig.calibData
            raw == Rat(sig.raw)
            s == Rat(sig.supply)
            c == Rat(d.calibrationSupplyVoltage)
            expected ==
                CASE sig.calibrationType = "interceptStar"
                       -> RatAdd(RatMul(RatMul(RatDiv(c, s), Rat(d.slope)), raw),
                                 Rat(d.offset))
                  [] sig.calibrationType = "intercept"
                       -> RatMul(RatDiv(c, s),
                                 RatAdd(RatMul(Rat(d.slope), raw), Rat(d.offset)))
                  [] sig.calibrationType = "bias"
                       -> RatMul(Rat(d.slope),
                                 RatSub(raw, RatMul(RatDiv(s, c), Rat(d.bias))))
        IN  RatEq(scaleCall.result.sample, expected)

(***************************************************************************)
(* Synchronization: find_timeshift, sync_error and truncate_data of        *)
(* DataProcessor.py.  SpecSync makes one call at a time.                   *)
(***************************************************************************)
\* find_timeshift counts time in hundredths of a second: the grid
\* linspace(0., .5), the range 0. < guess < 1., the distance .1 of
\* isCloseToTau and the distance 0.01 of the last test.
TauRangeEnd == 50
GuessMax == 100
GuessTol == 10
FminTol == 1

Guesses == (0 - GuessBeyond)..(GuessMax + GuessBeyond)

\* Mutation: a guess exactly .1 from tau0 counts as close.
isCloseToTau_inclusive(guess, tau0) ==
    guess - GuessTol <= tau0 /\ tau0 <= guess + GuessTol

\* Line 1168.
isCloseToTau(guess, tau0) ==
    guess - GuessTol < tau0 /\ tau0 < guess + GuessTol

\* Lines 1155-1175: grid is the argmin of the error landscape over
\* tauRange, guess the difference of the bump indices over the sample rate
\* (a float, never None).
find_timeshift_seed(guess, grid) ==
    /\ syncPc = "idle"
    /\ LET isInRange == 0 < guess /\ guess < GuessMax
           tau0 == IF isInRange /\ ~isCloseToTau(guess, grid)
                   THEN guess ELSE grid
       IN  sync' = [op |-> "find_timeshift", guess |-> guess, grid |-> grid,
                    tau0 |-> tau0, fmin |-> tau0, tau |-> tau0]
    /\ syncPc' = "seeded"
    /\ UNCHANGED outsideSync

\* Mutation: the minimizer is trusted one hundredth further.
badMinimizer_wide(t, tau0) == abs(t - tau0) > FminTol + 1

\* Line 1182.
badMinimizer(t, tau0) == abs(t - tau0) > FminTol

\* Lines 1177-1186: fmin is unconstrained and ends at result.
find_timeshift_return(result) ==
    /\ syncPc = "seeded" /\ sync.op = "find_timeshift"
    /\ sync' = [sync EXCEPT !.fmin = result,
                            !.tau = IF badMinimizer(result, sync.tau0)
                                    THEN sync.tau0 ELSE result]
    /\ syncPc' = "returned"
    /\ UNCHANGED outsideSync

\* time_vector(n, sampleRate)[first:], in ticks of one sample period: the
\* times of a section that starts at sample first.
time_vector(first, n) == [i \in 1..n |-> first + i - 1]

\* Lines 1027-1076, for a section of n samples that starts at sample first.
\* The overlap is intervalTime; indexing an empty intervalTime is an
\* IndexError.
sync_error(t, first, n) ==
    /\ syncPc = "idle"
    /\ LET time == time_vector(first, n)
           shiftedTime == [i \in 1..n |-> time[i] + t]
           intervalTime ==
               IF t > 0
               THEN {i \in 1..n : shiftedTime[i] < time[n]}
               ELSE {i \in 1..n : shiftedTime[i] > time[1]}
           outcome == IF abs(t) >= time[n] THEN "ValueError"
                      ELSE IF intervalTime = {} THEN "IndexError"
                      ELSE "error"
       IN  sync' = [op |-> "sync_error", tau |-> t, first |-> first, n |-> n,
                    outcome |-> outcome,
                    overlap |-> Cardinality(intervalTime)]
    /\ syncPc' = "returned"
    /\ UNCHANGED outsideSync

\* Lines 964-999, for one signal of n samples and the given sample period:
\* the length of the truncated signal.  t = i * period, tni = t - tau and
\* tcom = tvn[tvn < tni[-1]]; the NI signal is interpolated at tcom, the VN
\* signal cut at tcom[-1].
truncate_data(n, period, t) ==
    Cardinality({i \in 0..(n - 1) : i * period < (n - 1) * period - t})

\* Signal.truncate of the NI and of the VN signal of one run with the same
\* tau, 0 <= tau < duration of either; Signal.time() of a result is
\* time_vector(len, sampleRate).
truncate_pair(n, periodNI, periodVN, t) ==
    /\ syncPc = "idle"
    /\ t < (n - 1) * periodNI /\ t < (n - 1) * periodVN
    /\ LET lenNI == truncate_data(n, periodNI, t)
           lenVN == truncate_data(n, periodVN, t)
       IN  sync' = [op |-> "truncate_data", tau |-> t, n |-> n,
                    periodNI |-> periodNI, periodVN |-> periodVN,
                    lenNI |-> lenNI, lenVN |-> lenVN,
                    lastNI |-> (lenNI - 1) * periodNI,
                    lastVN |-> (lenVN - 1) * periodVN]
    /\ syncPc' = "returned"
    /\ UNCHANGED outsideSync

SyncInit ==
    /\ maneuver = "Balance"
    /\ riderLoaded = TRUE
    /\ rawNodes = rawDataCols
    /\ RunIdle
    /\ SensorIdle
    /\ SignalIdle /\ ScaleIdle /\ SyncIdle /\ CallIdle

SyncNext ==
    \/ \E guess \in Guesses, grid \in 0..TauRangeEnd :
          find_timeshift_seed(guess, grid)
    \/ \E d \in (0 - FminSpread)..FminSpread :
          find_timeshift_return(sync.tau0 + d)
    \/ \E n \in 2..MaxLen, first \in 0..MaxFirst,
          t \in (0 - (MaxLen + MaxFirst))..(MaxLen + MaxFirst) :
          sync_error(t, first, n)
    \/ \E n \in 2..MaxLen, periodNI \in 1..MaxPeriod, periodVN \in 1..MaxPeriod,
          t \in 0..(MaxLen * MaxPeriod) :
          truncate_pair(n, periodNI, periodVN, t)

SpecSync == SyncInit /\ [][SyncNext]_vars

FindTimeshiftReturned == syncPc = "returned" /\ sync.op = "find_timeshift"

\* C13: the time shift find_timeshift returns is never negative.
C13_TauNotNegative == FindTimeshiftReturned => sync.tau >= 0

\* C14, as claimed: the seed of the minimization is the guess exactly when
\* 0 < guess < 1 and the guess is more than 0.1 s from the argmin of the
\* grid, and the argmin otherwise, also at exactly 0.1 s.
C14_SeedIsGuessIffFurtherThanTol ==
    sync.op = "find_timeshift" =>
        sync.tau0 = IF /\ 0 < sync.guess /\ sync.guess < 100
                       /\ abs(sync.grid - sync.guess) > 10
                    THEN sync.guess ELSE sync.grid

\* C14, amended: the seed is the guess exactly when 0 < guess < 1 and the
\* guess is 0.1 s or more from the argmin of the grid, and the argmin
\* otherwise.
C14_SeedIsGuessIffAtLeastTol ==
    sync.op = "find_timeshift" =>
        sync.tau0 = IF /\ 0 < sync.guess /\ sync.guess < 100
                       /\ abs(sync.grid - sync.guess) >= 10
                    THEN sync.guess ELSE sync.grid

C14_Witness ==
    /\ sync.op = "find_timeshift"
    /\ sync.guess = 10 /\ sync.grid = 0
    /\ sync.tau0 = sync.guess

\* C15: the returned time shift is within 0.01 s of the seed: the result
\* of the minimizer when that is within 0.01 s, the seed itself when not.
C15_ReturnedWithinTolOfSeed ==
    FindTimeshiftReturned =>
        /\ abs(sync.tau - sync.tau0) <= 1
        /\ sync.tau = IF abs(sync.fmin - sync.tau0) > 1
                      THEN sync.tau0 ELSE sync.fmin

C15_Witness ==
    /\ FindTimeshiftReturned
    /\ abs(sync.fmin - sync.tau0) = 2
    /\ sync.tau = sync.tau0

\* C16: sync_error raises its ValueError for every tau of magnitude at
\* least the duration time[-1] - time[0] of the section, wherever the
\* section starts; for every other tau the overlap has a sample and the
\* error is computed.
C16_TauRangeChecked ==
    syncPc = "returned" /\ sync.op = "sync_error" =>
        /\ abs(sync.tau) >= sync.n - 1 => sync.outcome = "ValueError"
        /\ sync.outcome # "ValueError" =>
               sync.overlap > 0 /\ sync.outcome = "error"

\* C17: truncated with the same tau, 0 <= tau < duration, the NI and the VN
\* signal of a run have the same length, and their last time stamps are
\* less than one sample period apart.
C17_TruncatedAlike ==
    syncPc = "returned" /\ sync.op = "truncate_data" =>
        /\ sync.lenNI = sync.lenVN
        /\ abs(sync.lastNI - sync.lastVN) < sync.periodNI
        /\ abs(sync.lastNI - sync.lastVN) < sync.periodVN

\* C29: when Run.__init__ has returned, topSig exists, it is 'task' exactly
\* when the Run has taskSignals, and 'calibrated' otherwise.
C29_TopSigDefinedOnReturn ==
    pc = "done" =>
        /\ topSig # Undefined
        /\ topSig = "task" <=> "taskSignals" \in attrs
        /\ topSig # "task" => topSig = "calibrated"

(***************************************************************************)
(* Single calls.  SpecCalls makes one call of one function of the          *)
(* repository on bounded arguments: Signal construction and truncation,    *)
(* time_derivative and integrate, the forward speed of both Run            *)
(* implementations, split_around_nan, find_bump, the slicing of            *)
(* extract_task and select_runs.                                           *)
(***************************************************************************)
MaxDim       == 2   \* dimensions of an array handed to Signal, 0..MaxDim
MaxShape     == 2   \* extent of such an array along one dimension
MaxSamples   == 4   \* samples of an array searched for NaNs or for the bump
MaxBumpTicks == 8   \* bumpDuration * sampleRate, in half samples
MaxRows      == 2   \* rows of the run table

Max(a, b) == IF a > b THEN a ELSE b
Min(a, b) == IF a < b THEN a ELSE b

\* The bounds of the Python slice [a:b] of a sequence of n items: a negative
\* index counts from the end, and an index outside the sequence is clipped.
SliceIndex(n, i) == IF i < 0 THEN Max(n + i, 0) ELSE Min(i, n)
SliceLen(n, a, b) == Max(SliceIndex(n, b) - SliceIndex(n, a), 0)

\* arr[a:b] for 0-based a and b.
Slice(arr, a, b) ==
    SubSeq(arr, SliceIndex(Len(arr), a) + 1, SliceIndex(Len(arr), b))

\* ---- Signal.__new__, main.py lines 127-143 --------------------------------
\* The shapes of the arrays handed to Signal: () for a zero-dimensional
\* array, (n,) for a vector, (n, m) for a matrix.
Shapes == UNION {[1..d -> 0..MaxShape] : d \in 0..MaxDim}

Signal_new(shape) ==
    /\ callPc = "idle"
    /\ call' = [op |-> "Signal", shape |-> shape,
                outcome |-> IF Len(shape) > 1 THEN "ValueError" ELSE "Signal"]
    /\ callPc' = "returned"
    /\ UNCHANGED outsideCall

\* ---- Signal.truncate, main.py lines 269-273 -------------------------------
\* truncate_data of DataProcessor.py, lines 981-999, by source: the NI
\* signal is interpolated at tcom, also when tcom is empty; the VN signal
\* is cut at tcom[-1], an IndexError when tcom is empty; any other source
\* is a ValueError.  The result is wrapped in Signal again.
Sources == {"NI", "VN", NoneAttr}

Signal_truncate(n, period, t, source) ==
    /\ callPc = "idle"
    /\ LET tcom == truncate_data(n, period, t)
           outcome == IF source = "NI" THEN "Signal"
                      ELSE IF source = "VN"
                           THEN IF tcom = 0 THEN "IndexError" ELSE "Signal"
                      ELSE "ValueError"
       IN  call' = [op |-> "truncate", n |-> n, period |-> period,
                    tau |-> t, source |-> source, outcome |-> outcome,
                    shape |-> <<tcom>>]
    /\ callPc' = "returned"
    /\ UNCHANGED outsideCall

\* ---- find_bump, DataProcessor.py lines 820-871 ----------------------------
\* Acceleration samples: floats and nan.
AccelSamples == {Num(v) : v \in {0 - 2, 0 - 1, 0, 1, 2}} \cup {NaN}

\* One-dimensional arrays of up to MaxSamples samples.
Arrays == UNION {[1..n -> AccelSamples] : n \in 1..MaxSamples}

hasnan(arr) == \E i \in DOMAIN arr : isnan(arr[i])

\* Mutation: the position of the maximum, whatever the minimum is.
bump_indice_of_max(sig) ==
    LET valid  == {i \in DOMAIN sig : ~isnan(sig[i])}
        nanmax == CHOOSE v \in {sig[i].v : i \in valid} :
                      \A i \in valid : sig[i].v <= v
    IN  (CHOOSE i \in valid :
             /\ sig[i].v = nanmax
             /\ \A j \in valid : sig[j].v = nanmax => i <= j) - 1

\* Lines 843-848: the 0-based position of the larger in magnitude of the
\* maximum and the minimum, the first one where several samples have it.
bump_indice(sig) ==
    LET valid  == {i \in DOMAIN sig : ~isnan(sig[i])}
        nanmax == CHOOSE v \in {sig[i].v : i \in valid} :
                      \A i \in valid : sig[i].v <= v
        nanmin == CHOOSE v \in {sig[i].v : i \in valid} :
                      \A i \in valid : sig[i].v >= v
        nanargmax == (CHOOSE i \in valid :
                          /\ sig[i].v = nanmax
                          /\ \A j \in valid : sig[j].v = nanmax => i <= j) - 1
        nanargmin == (CHOOSE i \in valid :
                          /\ sig[i].v = nanmin
                          /\ \A j \in valid : sig[j].v = nanmin => i <= j) - 1
    IN  IF abs(nanmax) > abs(nanmin) THEN nanargmax ELSE nanargmin

\* Lines 859-863, for a positive speed: bumpDuration * sampleRate is given
\* in half samples, int() drops the fraction, and the number of samples is
\* rounded down to a multiple of four.
bumpSamples(ticks) == ((ticks \div 2) \div 4) * 4

\* Line 866.
bump_indices(indice, w) ==
    <<indice - w \div 4, indice, indice + (3 * w) \div 4>>

\* One call of find_bump on some array, for some bump duration.  nanargmax
\* of a signal of nans only is a ValueError.
find_bump ==
    /\ callPc = "idle"
    /\ \E sig \in Arrays, ticks \in 0..MaxBumpTicks :
          IF \A i \in DOMAIN sig : isnan(sig[i])
          THEN call' = [op |-> "find_bump", sig |-> sig,
                        outcome |-> "ValueError"]
          ELSE LET indice == bump_indice(sig)
               IN  call' = [op |-> "find_bump", sig |-> sig,
                            outcome |-> "indices",
                            w |-> bumpSamples(ticks),
                            warned |-> 3 * indice > Len(sig),
                            indices |-> bump_indices(indice,
                                                     bumpSamples(ticks))]
    /\ callPc' = "returned"
    /\ UNCHANGED outsideCall

\* ---- Run.extract_task, main.py lines 1458-1498 ----------------------------
\* The computed signals have n samples, find_bump located the bump at
\* indice; clipped is the test of lines 1482-1483, and clipEnd the whole
\* part of trackLength / meanSpeed * sampleRate.  Every task signal is
\* sig[indices[2]:end].
extract_task(n, indice, ticks, clipped, clipEnd) ==
    /\ callPc = "idle"
    /\ LET indices == bump_indices(indice, bumpSamples(ticks))
           end == IF clipped THEN clipEnd ELSE 0 - 1
       IN  call' = [op |-> "extract_task", n |-> n, indices |-> indices,
                    clipped |-> clipped, end |-> end,
                    outcome |-> "taskSignals",
                    first |-> SliceIndex(n, indices[3]),
                    shape |-> <<SliceLen(n, indices[3], end)>>]
    /\ callPc' = "returned"
    /\ UNCHANGED outsideCall

\* ---- Signal.time_derivative and Signal.integrate --------------------------
\* Signals with all five attributes; n is the number of samples.
LabelledSignals ==
    [name : {"SteerAngle", NoneAttr}, units : {"degree", NoneAttr},
     runid : {"00105"}, sampleRate : {200}, source : {"NI", "VN"},
     n : 3..MaxLen, samples : {Samples(1)}]

\* Mutation: the derivative keeps the units of the signal.
time_derivative_same_units(s) ==
    IF s.name = NoneAttr \/ s.units = NoneAttr
    THEN [outcome |-> "TypeError", sig |-> s]
    ELSE [outcome |-> "new",
          sig |-> [s EXCEPT !.name = s.name \o "Dot",
                           !.samples = Times(s.samples, "d/dt")]]

\* main.py, lines 259-267: the derivative has a sample for every sample of
\* the signal, Signal() copies the five attributes, and the two
\* concatenations are TypeErrors when the attribute is None.
time_derivative(s) ==
    IF s.name = NoneAttr \/ s.units = NoneAttr
    THEN [outcome |-> "TypeError", sig |-> s]
    ELSE [outcome |-> "new",
          sig |-> [s EXCEPT !.name = s.name \o "Dot",
                           !.units = s.units \o "/second",
                           !.samples = Times(s.samples, "d/dt")]]

\* main.py, lines 216-232: cumtrapz gives n - 1 samples and hstack puts 0.
\* in front of them.
integrate(s) ==
    IF s.name = NoneAttr \/ s.units = NoneAttr
    THEN [outcome |-> "TypeError", sig |-> s]
    ELSE [outcome |-> "new",
          sig |-> [s EXCEPT !.name = s.name \o "Int",
                           !.units = s.units \o "*second",
                           !.n = 1 + (s.n - 1),
                           !.samples = Times(s.samples, "cumtrapz")]]

\* One call of either method; receiver is the signal after the call.
time_derivative_call(s) ==
    /\ callPc = "idle"
    /\ LET r == time_derivative(s)
       IN  call' = [op |-> "time_derivative", outcome |-> r.outcome,
                    before |-> s, receiver |-> s, result |-> r.sig]
    /\ callPc' = "returned"
    /\ UNCHANGED outsideCall

integrate_call(s) ==
    /\ callPc = "idle"
    /\ LET r == integrate(s)
       IN  call' = [op |-> "integrate", outcome |-> r.outcome,
                    before |-> s, receiver |-> s, result |-> r.sig]
    /\ callPc' = "returned"
    /\ UNCHANGED outsideCall

\* ---- ForwardSpeed ---------------------------------------------------------
\* RearWheelRate as truncate_signals leaves it, in either of its units.
RearWheelRates ==
    [name : {"RearWheelRate"}, units : {"radian/second", "degree/second"},
     samples : {Samples(1)}]

\* main.py, lines 1343-1358.
compute_forward_speed_main(rate) ==
    LET rearWheelRate == convert_units_main(rate, "radian/second").sig
    IN  [name |-> "ForwardSpeed", units |-> "meter/second",
         samples |-> Times(rearWheelRate.samples, "-rR")]

\* DataProcessor.py, lines 597-601.
compute_forward_speed_legacy(rate) ==
    [name |-> "ForwardSpeed", units |-> "meter/second",
     samples |-> Times(rate.samples, "rR")]

\* One computation of ForwardSpeed by either implementation.
compute_forward_speed_call(impl, rate) ==
    /\ callPc = "idle"
    /\ call' = [op |-> "compute_forward_speed", impl |-> impl,
                rate |-> rate, outcome |-> "ForwardSpeed",
                result |-> IF impl = "main.py"
                           THEN compute_forward_speed_main(rate)
                           ELSE compute_forward_speed_legacy(rate)]
    /\ callPc' = "returned"
    /\ UNCHANGED outsideCall

\* ---- split_around_nan, DataProcessor.py lines 770-818 ---------------------
\* np.nonzero(np.isnan(arr))[0]: the 0-based positions of the nans of arr,
\* ascending.
RECURSIVE nan_positions(_, _)
nan_positions(arr, i) ==
    IF i > Len(arr) THEN <<>>
    ELSE (IF isnan(arr[i]) THEN <<i - 1>> ELSE <<>>)
             \o nan_positions(arr, i + 1)

\* np.split(arr, cuts): arr[:cuts[0]], arr[cuts[0]:cuts[1]], ...,
\* arr[cuts[-1]:].
np_split(arr, cuts) ==
    [j \in 1..(Len(cuts) + 1) |->
        Slice(arr, IF j = 1 THEN 0 ELSE cuts[j - 1],
                   IF j = Len(cuts) + 1 THEN Len(arr) ELSE cuts[j])]

\* Mutation: the second split cuts in front of the nan, as the first does.
second_cuts_at_nan(arr) == nan_positions(arr, 1)

\* Line 799: the second split cuts behind every nan.
second_cuts(arr) ==
    [j \in DOMAIN nan_positions(arr, 1) |-> nan_positions(arr, 1)[j] + 1]

\* Lines 796-802, from the i-th piece of the first split on.
RECURSIVE split_again(_, _)
split_again(firstSplit, i) ==
    IF i > Len(firstSplit) THEN <<>>
    ELSE (IF hasnan(firstSplit[i])
          THEN np_split(firstSplit[i], second_cuts(firstSplit[i]))
          ELSE <<firstSplit[i]>>) \o split_again(firstSplit, i + 1)

\* Lines 809-814: count after the i-th array.
RECURSIVE count_after(_, _)
count_after(arrays, i) ==
    IF i = 0 THEN 0 ELSE count_after(arrays, i - 1) + Len(arrays[i])

split_around_nan(sig) ==
    IF hasnan(sig)
    THEN LET firstSplit == np_split(sig, nan_positions(sig, 1))
             arrays == SelectSeq(split_again(firstSplit, 1),
                                 LAMBDA arr : Len(arr) # 0)
         IN  [arrays  |-> arrays,
              indices |-> [i \in DOMAIN arrays |->
                  IF hasnan(arrays[i])
                  THEN <<count_after(arrays, i) - 1, count_after(arrays, i)>>
                  ELSE <<count_after(arrays, i) - Len(arrays[i]),
                         count_after(arrays, i)>>]]
    ELSE [arrays |-> <<sig>>, indices |-> <<<<0, Len(sig)>>>>]

\* One call of split_around_nan on some array.
split_around_nan_call ==
    /\ callPc = "idle"
    /\ \E sig \in Arrays :
          LET r == split_around_nan(sig)
          IN  call' = [op |-> "split_around_nan", sig |-> sig,
                       outcome |-> "sections",
                       indices |-> r.indices, arrays |-> r.arrays]
    /\ callPc' = "returned"
    /\ UNCHANGED outsideCall

\* ---- select_runs, select_runs.py lines 3-40 -------------------------------
\* The rows of the run table.  A cell of the Bool column is a numpy.bool_,
\* never the object True; RunID is an integer.
npTrue  == [type |-> "numpy.bool_", value |-> TRUE]
npFalse == [type |-> "numpy.bool_", value |-> FALSE]

TableRows ==
    [Rider : {"Charlie", "Luke"}, Maneuver : {"Balance", "Lane Change"},
     Environment : {"Pavillion Floor", "Treadmill"},
     corrupt : {npTrue, npFalse}, RunID : {100, 101}]

RunTables == UNION {[1..n -> TableRows] : n \in 1..MaxRows}

\* Line 33: "x is not True" compares the object x with the object True.
is_not_True(x) == ~(x.type = "bool" /\ x.value = TRUE)

\* Lines 27-36, from row i on.
RECURSIVE select_rows(_, _, _, _, _)
select_rows(table, i, riders, maneuvers, environments) ==
    IF i > Len(table) THEN <<>>
    ELSE LET row == table[i]
             con == <<row.Rider \in riders,
                      row.Maneuver \in maneuvers,
                      row.Environment \in environments,
                      is_not_True(row.corrupt),
                      row.RunID > 100>>
         IN  (IF FALSE \notin Range(con) THEN <<row.RunID>> ELSE <<>>)
                 \o select_rows(table, i + 1, riders, maneuvers, environments)

\* One call of select_runs on some run table.
select_runs(riders, maneuvers, environments) ==
    /\ callPc = "idle"
    /\ \E table \in RunTables :
          call' = [op |-> "select_runs", table |-> table, riders |-> riders,
                   maneuvers |-> maneuvers, environments |-> environments,
                   outcome |-> "runs",
                   runs |-> select_rows(table, 1, riders, maneuvers,
                                        environments)]
    /\ callPc' = "returned"
    /\ UNCHANGED outsideCall

\* ---- the specification ----------------------------------------------------
CallInit ==
    /\ maneuver = "Balance"
    /\ riderLoaded = TRUE
    /\ rawNodes = rawDataCols
    /\ RunIdle
    /\ SensorIdle
    /\ SignalIdle /\ ScaleIdle /\ SyncIdle /\ CallIdle

CallNext ==
    \/ \E shape \in Shapes : Signal_new(shape)
    \/ \E n \in 2..MaxLen, period \in 1..MaxPeriod, source \in Sources :
          \E t \in 0..((n - 1) * period) : Signal_truncate(n, period, t, source)
    \/ \E s \in LabelledSignals : time_derivative_call(s)
    \/ \E s \in LabelledSignals : integrate_call(s)
    \/ \E impl \in Implementations, rate \in RearWheelRates :
          compute_forward_speed_call(impl, rate)
    \/ split_around_nan_call
    \/ find_bump
    \/ \E n \in 1..MaxSamples, ticks \in 0..MaxBumpTicks, clipped \in BOOLEAN,
          clipEnd \in 0..MaxSamples :
          \E indice \in 0..(n - 1) :
              extract_task(n, indice, ticks, clipped, clipEnd)
    \/ select_runs({"Charlie"}, {"Balance"}, {"Pavillion Floor"})

SpecCalls == CallInit /\ [][CallNext]_vars

Returned(op) == callPc = "returned" /\ call.op = op

\* C21: every Signal is one-dimensional with at least one sample: Signal()
\* raises ValueError for every array that is not one-dimensional, the
\* zero-dimensional ones included, and neither construction nor truncate
\* nor the slicing of extract_task gives a Signal without samples.
C21_SignalsAreNonEmptyVectors ==
    /\ Returned("Signal") =>
          /\ Len(call.shape) # 1 => call.outcome = "ValueError"
          /\ call.outcome = "Signal" =>
                Len(call.shape) = 1 /\ call.shape[1] >= 1
    /\ Returned("truncate") /\ call.outcome = "Signal" => call.shape[1] >= 1
    /\ Returned("extract_task") => call.shape[1] >= 1

\* C22: time_derivative and integrate return a new Signal with as many
\* samples as the input, named <name>Dot with units <units>/second, or
\* <name>Int with units <units>*second; runid, sampleRate and source are
\* those of the input, and the input is left as it was.
C22_DerivativeAndIntegralLabelled ==
    (callPc = "returned" /\ call.op \in {"time_derivative", "integrate"}
        /\ call.outcome # "TypeError") =>
        LET s == call.before
            r == call.result
            dot == call.op = "time_derivative"
        IN  /\ call.outcome = "new"
            /\ r.n = s.n
            /\ r.name = s.name \o (IF dot THEN "Dot" ELSE "Int")
            /\ r.units = s.units \o (IF dot THEN "/second" ELSE "*second")
            /\ r.runid = s.runid
            /\ r.sampleRate = s.sampleRate
            /\ r.source = s.source
            /\ call.receiver = s

C22_Witness ==
    /\ Returned("time_derivative")
    /\ call.outcome = "new"
    /\ call.result.name = "SteerAngleDot"
    /\ call.result.units = "degree/second"

\* C23: ForwardSpeed is -rR times RearWheelRate in radian/second, named
\* 'ForwardSpeed' with units 'meter/second', in both Run implementations.
C23_ForwardSpeedOfBothRuns ==
    Returned("compute_forward_speed") =>
        LET inRadians ==
                IF call.rate.units = "radian/second" THEN call.rate.samples
                ELSE Times(call.rate.samples,
                           <<"degree/second", "radian/second">>)
        IN  /\ call.result.samples = Times(inRadians, "-rR")
            /\ call.result.name = "ForwardSpeed"
            /\ call.result.units = "meter/second"

\* The NaN-free runs of sig start where a sample that is not nan follows a
\* nan or starts the array.
NanFreeRuns(sig) ==
    {i \in DOMAIN sig : ~isnan(sig[i]) /\ (i = 1 \/ isnan(sig[i - 1]))}

C25_BumpAtLargestMagnitude ==
    Returned("find_bump") =>
        /\ call.outcome = "ValueError" <=>
               \A i \in DOMAIN call.sig : isnan(call.sig[i])
        /\ call.outcome = "indices" =>
              LET sig == call.sig
                  index == call.indices[2]
              IN  /\ index + 1 \in DOMAIN sig
                  /\ ~isnan(sig[index + 1])
                  /\ \A i \in DOMAIN sig :
                        ~isnan(sig[i]) => abs(sig[i].v) <= abs(sig[index + 1].v)
                  /\ call.w >= 0 /\ call.w % 4 = 0
                  /\ 4 * call.indices[1] = 4 * index - call.w
                  /\ 4 * call.indices[3] = 4 * index + 3 * call.w

C25_Witness ==
    /\ Returned("find_bump")
    /\ call.outcome = "indices"
    /\ call.sig = <<Num(1), NaN, Num(2), Num(0 - 2)>>
    /\ call.warned
    /\ call.w = 4
    /\ call.indices = <<2, 3, 6>>

\* C26: when the end is not clipped, a task signal is the computed signal
\* from the end of the bump through its last sample: it has len(computed)
\* minus the bump-end index samples.
C26_EndNotClipped ==
    Returned("extract_task") /\ ~call.clipped =>
        call.shape[1] = call.n - call.indices[3]

\* The rows that select_runs is to return, from row i on.
RECURSIVE wanted_rows(_, _)
wanted_rows(c, i) ==
    IF i > Len(c.table) THEN <<>>
    ELSE LET row == c.table[i]
         IN  (IF /\ row.Rider \in c.riders
                 /\ row.Maneuver \in c.maneuvers
                 /\ row.Environment \in c.environments
                 /\ ~row.corrupt.value
                 /\ row.RunID > 100
              THEN <<row.RunID>> ELSE <<>>) \o wanted_rows(c, i + 1)

\* C27: select_runs returns, in table order, the RunIDs of exactly the rows
\* whose rider, maneuver and environment are among those asked for, that
\* are not flagged corrupt and whose RunID exceeds 100.
C27_SelectedRuns ==
    Returned("select_runs") => call.runs = wanted_rows(call, 1)

\* C28: the triple of find_bump lies inside the signal, 0 <= start <= index
\* <= end <= n, and no task signal of extract_task is empty or starts
\* anywhere but at the end of the bump.
C28_BumpInsideSignal ==
    /\ Returned("find_bump") /\ call.outcome = "indices" =>
          /\ 0 <= call.indices[1]
          /\ call.indices[1] <= call.indices[2]
          /\ call.indices[2] <= call.indices[3]
          /\ call.indices[3] <= Len(call.sig)
    /\ Returned("extract_task") =>
          /\ 0 <= call.indices[1]
          /\ call.indices[3] <= call.n
          /\ call.first = call.indices[3]
          /\ call.shape[1] >= 1

\* C30: a convert_units that succeeds in converting to other units returns
\* a signal with the name, runid, sampleRate and source of the receiver,
\* in both implementations.
C30_ConvertUnitsKeepsAttributes ==
    (/\ signalPc = "converted"
     /\ convCall.outcome = "new"
     /\ convCall.target # convCall.before.units) =>
        /\ convCall.result.name = convCall.before.name
        /\ convCall.result.runid = convCall.before.runid
        /\ convCall.result.sampleRate = convCall.before.sampleRate
        /\ convCall.result.source = convCall.before.source

====
